---- MODULE Spec2Model ----
(***************************************************************************)
(* Aiolos weather station firmware: connectivity and power resilience.     *)
(*                                                                         *)
(* The model follows firmware/src/main.cpp (setup, loop,                   *)
(* handleOfflineSafetyMechanisms), firmware/src/core/ModemManager.cpp      *)
(* (connection failure tracker, emergency reset) and                       *)
(* firmware/src/core/AiolosHttpClient.cpp (HTTP backoff).                  *)
(*                                                                         *)
(* Time is the value of millis(), in milliseconds since boot.  Two         *)
(* specifications share the definitions:                                   *)
(*   Spec         the whole device: power-up, setup() and loop()           *)
(*                iterations, observed at multiples of LoopQuantum;        *)
(*   SpecTracker  the ModemManager connection failure tracker on its own,  *)
(*                observed at multiples of TrackerQuantum.                 *)
(***************************************************************************)
EXTENDS Integers, Sequences, FiniteSets, TLC

(***************************************************************************)
(* Program constants                                                       *)
(***************************************************************************)
\* ModemManager.h
MAX_CONSECUTIVE_FAILURES == 5
MIN_BACKOFF_DELAY == 30000
MAX_BACKOFF_DELAY == 300000
MIN_RESET_INTERVAL == 300000
UNRESPONSIVE_TIMEOUT == 180000
\* connectNetwork() and connectGprs() called without an argument
DEFAULT_MAX_RETRIES == 3
\* AiolosHttpClient.h
BASE_BACKOFF_DELAY_MS == 5000
MAX_BACKOFF_DELAY_MS == 300000
\* Config.h
DEFAULT_SLEEP_START_HOUR == 22
DEFAULT_SLEEP_END_HOUR == 9
DEFAULT_OTA_HOUR == 10
DEFAULT_OTA_MINUTE == 0
DEFAULT_OTA_DURATION == 15
WDT_TIMEOUT == 120000
UPTIME_RESTART_INTERVAL == 14400000
DEFAULT_TIME_UPDATE_INTERVAL == 3600000
MAX_CONNECTION_FAILURES == 10
CONNECTION_FAILURE_RESET_TIME == 600000
EMERGENCY_RECOVERY_DURATION == 600000
MAX_OFFLINE_TIME == 3600000
BACKOFF_RESET_INTERVAL == 1800000

(***************************************************************************)
(* Bounds of the model                                                     *)
(***************************************************************************)
\* SpecTracker observes millis() at multiples of the smallest tracker delay.
TrackerQuantum == MIN_BACKOFF_DELAY
\* SpecTracker stops the clock after this many quanta.
MaxTrackerQuanta == 12
\* Beyond that horizon SpecTracker's clock only jumps to the end of a pending
\* backoff, up to this many quanta.
MaxWaitQuanta == 37
\* A blocking connection attempt or modem reset lasts at most this many quanta.
MaxBlockQuanta == 1
\* Spec observes loop() at millis() = SetupMillis (the end of setup()) and then
\* at multiples of LoopQuantum.
LoopQuantum == MAX_OFFLINE_TIME
\* millis() when setup() calls maintainConnection(): hardware initialisation
\* has delayed for at least half a second by then.
SetupMillis == 1000
\* One loop() iteration is followed by the next at the same observed time or
\* at most this many quanta later.
MaxStepQuanta == 1
\* HTTP requests sent by one loop() iteration.
MaxRequests == 1
\* The server fails at most this many requests in a row.
MaxHttpFailures == 1
\* SpecRecovery observes loop() at millis() = SetupMillis and then at multiples
\* of RecoveryQuantum: an iteration blocked in the modem may take that long.
RecoveryQuantum == UNRESPONSIVE_TIMEOUT
\* SpecRecovery stops the clock after this many quanta.
MaxRecoveryQuanta == 5
\* the largest maxRetries handed to connectNetwork() and connectGprs()
MaxRetries == 3
\* SpecMaintain observes millis() at SetupMillis and then at multiples of
\* MaintainQuantum, up to this many
MaxMaintainQuanta == 2
\* SpecOta observes loop() at millis() = SetupMillis and then at multiples of
\* the OTA check interval, up to this many
MaxOtaQuanta == 2
\* SpecHttp observes millis() at multiples of the smallest HTTP backoff.
HttpQuantum == BASE_BACKOFF_DELAY_MS
\* SpecHttp's clock ticks, the link changes, the server answers 2xx and a new
\* failure streak begins only within this many quanta.
MaxHttpQuanta == 4
\* Beyond that horizon SpecHttp's clock only jumps to the end of a pending
\* HTTP backoff, up to this many quanta: enough for 256 failures in a row.
MaxHttpWaitQuanta == 15004

VARIABLES
    now,            \* millis(): milliseconds since boot
    phase,          \* "boot" | "run" | "restarting" | "sleeping"
    restartCause,   \* why ESP.restart() was called: "none" | "init" | "uptime" | "offline" | "ota"
    link,           \* what the modem reports: "off" | "net" (registered) | "gprs" (bearer up)
    modem,          \* ModemManager: the connection failure tracker
    http,           \* AiolosHttpClient: the HTTP backoff state
    main,           \* main.cpp: the globals of the safety orchestrator
    obs,            \* what the last handler did (history, not read by the program)
    hw              \* the board: task watchdog configuration, PWR_PIN level, wake timer

vars == <<now, phase, restartCause, link, modem, http, main, obs, hw>>

Min(a, b) == IF a < b THEN a ELSE b

\* unsigned long subtraction (32 bits on the ESP32).  When a < b the result
\* wraps to 2^32 - (b - a), which exceeds every delay of the program; the model
\* checker's integers end at 2^31 - 1, so the wrapped value is written from there.
USub(a, b) == IF a >= b THEN a - b ELSE 2147483647 - (b - a)

(***************************************************************************)
(* The board: task watchdog, modem power-control line, wake timer          *)
(***************************************************************************)
\* esp_task_wdt_init(timeout, panic): the configuration of the task watchdog;
\* the timeout argument is in seconds
Wdt(timeout, panic) == [ timeout |-> timeout, panic |-> panic ]

\* before setupWatchdog() the sketch has not configured the task watchdog
WdtUnset == Wdt(0, FALSE)

\* PWR_PIN is not driven until _initHardware(); no wake timer is armed;
\* cause: esp_sleep_get_wakeup_cause(), "poweron" | "timer"
HwBoot == [ wdt |-> WdtUnset, pwr |-> "unset", wake |-> 0, cause |-> "poweron" ]

\* ModemManager::_setWatchdog(disable) with DISABLE_WDT_FOR_MODEM defined
SetWatchdog(disable) ==
    IF disable THEN Wdt(WDT_TIMEOUT * 2, FALSE) ELSE Wdt(WDT_TIMEOUT, TRUE)

\* setupWatchdog()
SetupWatchdog == Wdt(WDT_TIMEOUT \div 1000, TRUE)

\* the watchdog restarts the device when it is not fed in time
WdtArmed(h) == h.wdt.panic

\* What a modem operation does to the board and the modem, in order:
\*   "wdtSuspend", "wdtResume"      _setWatchdog(true), _setWatchdog(false)
\*   "wdtDeinit"                    esp_task_wdt_deinit()
\*   "wdtSetup"                     setupWatchdog()
\*   "pwrHigh", "pwrLow"            digitalWrite(PWR_PIN, ...)
\*   "hold100" ... "hold1500"       the delay while PWR_PIN is held LOW, in ms
\*   "probe"                        an AT liveness probe and the wait for its answer
\*   every other name               a command or wait that leaves the board alone
RECURSIVE HwAfter(_, _)
HwAfter(h, calls) ==
    IF calls = << >>
    THEN h
    ELSE LET c == Head(calls)
             h1 == IF c = "wdtSuspend" THEN [h EXCEPT !.wdt = SetWatchdog(TRUE)]
                   ELSE IF c = "wdtResume" THEN [h EXCEPT !.wdt = SetWatchdog(FALSE)]
                   ELSE IF c = "wdtDeinit" THEN [h EXCEPT !.wdt = WdtUnset]
                   ELSE IF c = "wdtSetup" THEN [h EXCEPT !.wdt = SetupWatchdog]
                   ELSE IF c = "pwrHigh" THEN [h EXCEPT !.pwr = "HIGH"]
                   ELSE IF c = "pwrLow" THEN [h EXCEPT !.pwr = "LOW"]
                   ELSE h
         IN  HwAfter(h1, Tail(calls))

Probes(n) == [i \in 1..n |-> "probe"]

\* the pulses on PWR_PIN (the transistor inverts: LOW is the active level)
PulseOn == <<"pwrHigh", "pwrLow", "hold1000", "pwrHigh">>
PulseShort == <<"pwrLow", "hold100", "pwrHigh">>
PulseOff == <<"pwrLow", "hold1200", "pwrHigh">>

\* ModemManager::wakeUp(fromDeepSleep); the modem answers the a-th liveness
\* probe of the call (a = 0: none of them)
WakeUp(fromDeepSleep, a) ==
    LET pre == <<"wdtSuspend">>
               \o (IF fromDeepSleep THEN <<"holdRelease", "serialRestart">> ELSE << >>)
               \o <<"dtrLow", "probe">>
        mid == pre \o <<"sleepDisable">>
    IN  IF a = 1
        THEN [ ok |-> TRUE, calls |-> pre \o <<"wdtResume">> ]
        ELSE IF a \in 2..6
        THEN [ ok |-> TRUE, calls |-> mid \o Probes(a - 1) \o <<"wdtResume">> ]
        ELSE IF a \in 7..11
        THEN [ ok |-> TRUE,
               calls |-> mid \o Probes(5) \o PulseShort \o <<"settle">>
                             \o Probes(a - 6) \o <<"wdtResume">> ]
        ELSE [ ok |-> FALSE,
               calls |-> mid \o Probes(5) \o PulseShort \o <<"settle">>
                             \o Probes(5) \o <<"wdtResume">> ]

\* a slip: the power-on pulse is sent before the modem is probed
PowerOn_PulseFirst(e) ==
    IF e.timerWake
    THEN WakeUp(TRUE, e.a)
    ELSE
      LET boot == <<"wdtSuspend">> \o PulseOn \o <<"settle">> \o Probes(3)
                  \o <<"serialRestart">>
          tests(k) == Probes(IF k < 3 THEN k ELSE 3)
                      \o (IF k > 3 THEN PulseShort \o Probes(k - 3) ELSE << >>)
          last == boot \o Probes(3) \o PulseShort \o Probes(2) \o <<"restartCmd">>
      IN  IF e.a \in 1..3
          THEN [ ok |-> TRUE,
                 calls |-> <<"wdtSuspend">> \o PulseOn \o <<"settle">>
                           \o Probes(e.a) \o <<"wdtResume">> ]
          ELSE IF e.a \in 4..8
          THEN [ ok |-> TRUE, calls |-> boot \o tests(e.a - 3) \o <<"wdtResume">> ]
          ELSE IF ~e.restartOk /\ ~e.initOk
          THEN [ ok |-> FALSE, calls |-> last \o <<"initCmd", "wdtResume">> ]
          ELSE [ ok |-> (e.a = 9),
                 calls |-> last \o (IF e.restartOk THEN << >> ELSE <<"initCmd">>)
                                \o <<"probe", "wdtResume">> ]

\* a slip: the exit after restart() and init() have both failed leaves the
\* watchdog suspended
PowerOn_NoResumeOnInitFailure(e) ==
    IF e.timerWake
    THEN WakeUp(TRUE, e.a)
    ELSE
      LET boot == <<"wdtSuspend">> \o Probes(3) \o <<"serialRestart">>
                  \o PulseOn \o <<"settle">>
          tests(k) == Probes(IF k < 3 THEN k ELSE 3)
                      \o (IF k > 3 THEN PulseShort \o Probes(k - 3) ELSE << >>)
          last == boot \o Probes(3) \o PulseShort \o Probes(2) \o <<"restartCmd">>
      IN  IF e.a \in 1..3
          THEN [ ok |-> TRUE, calls |-> <<"wdtSuspend">> \o Probes(e.a) \o <<"wdtResume">> ]
          ELSE IF e.a \in 4..8
          THEN [ ok |-> TRUE, calls |-> boot \o tests(e.a - 3) \o <<"wdtResume">> ]
          ELSE IF ~e.restartOk /\ ~e.initOk
          THEN [ ok |-> FALSE, calls |-> last \o <<"initCmd">> ]
          ELSE [ ok |-> (e.a = 9),
                 calls |-> last \o (IF e.restartOk THEN << >> ELSE <<"initCmd">>)
                                \o <<"probe", "wdtResume">> ]

\* ModemManager::powerOn(); e.timerWake: the chip woke from deep sleep by its
\* timer; e.a: the modem answers the a-th liveness probe of the call;
\* e.restartOk, e.initOk: what TinyGSM's restart() and init() return
PowerOn(e) ==
    IF e.timerWake
    THEN WakeUp(TRUE, e.a)
    ELSE
      LET boot == <<"wdtSuspend">> \o Probes(3) \o <<"serialRestart">>
                  \o PulseOn \o <<"settle">>
          tests(k) == Probes(IF k < 3 THEN k ELSE 3)
                      \o (IF k > 3 THEN PulseShort \o Probes(k - 3) ELSE << >>)
          last == boot \o Probes(3) \o PulseShort \o Probes(2) \o <<"restartCmd">>
      IN  IF e.a \in 1..3
          THEN [ ok |-> TRUE, calls |-> <<"wdtSuspend">> \o Probes(e.a) \o <<"wdtResume">> ]
          ELSE IF e.a \in 4..8
          THEN [ ok |-> TRUE, calls |-> boot \o tests(e.a - 3) \o <<"wdtResume">> ]
          ELSE IF ~e.restartOk /\ ~e.initOk
          THEN [ ok |-> FALSE, calls |-> last \o <<"initCmd", "wdtResume">> ]
          ELSE [ ok |-> (e.a = 9),
                 calls |-> last \o (IF e.restartOk THEN << >> ELSE <<"initCmd">>)
                                \o <<"probe", "wdtResume">> ]

\* a slip: the power-off is validated by a liveness probe
PowerOff_ValidatesByProbe(responsive) ==
    IF responsive
    THEN [ ok |-> TRUE,
           calls |-> <<"probe", "pwrHigh", "powerDownCmd", "powerDownCmd",
                       "powerDownCmd", "powerDownCmd", "pwrHigh", "probe">> ]
    ELSE [ ok |-> TRUE, calls |-> <<"probe">> \o PulseOff \o <<"probe">> ]

\* ModemManager::powerOff(); responsive: the modem answers testAT()
PowerOff(responsive) ==
    IF responsive
    THEN [ ok |-> TRUE,
           calls |-> <<"probe", "pwrHigh", "powerDownCmd", "powerDownCmd",
                       "powerDownCmd", "powerDownCmd", "pwrHigh">> ]
    ELSE [ ok |-> TRUE, calls |-> <<"probe">> \o PulseOff ]

\* ModemManager::_initHardware()
InitHardware == <<"dtrLow", "pwrHigh", "serialRestart">>

\* ModemManager::resetModem(), what it does to the board; the modem answers
\* the a-th of the ten liveness probes (a = 0: none of them)
ResetModemCalls(a) ==
    [ ok |-> (a \in 1..10),
      calls |-> <<"wdtSuspend", "pwrHigh">>
                \o <<"pwrLow", "hold1500", "pwrHigh">>
                \o InitHardware
                \o <<"pwrLow", "hold1000", "pwrHigh", "settle">>
                \o Probes(IF a \in 1..10 THEN a ELSE 10)
                \o <<"wdtResume">> ]

\* is the modem registered / is the bearer up, from what the modem reports
NetUp(lk) == lk \in {"net", "gprs"}
GprsUp(lk) == lk = "gprs"

\* the attempts of the retry loop of connectNetwork(maxRetries): registration
\* succeeds in attempt regAt (0, or beyond maxRetries: in none of them)
RECURSIVE NetworkAttempts(_, _, _)
NetworkAttempts(attempt, maxRetries, regAt) ==
    IF attempt > maxRetries
    THEN << >>
    ELSE IF attempt = regAt
    THEN <<"wdtSuspend", "waitNetwork", "netCheck", "wdtResume">>
    ELSE <<"wdtSuspend", "waitNetwork", "wdtResume", "backoff">>
         \o NetworkAttempts(attempt + 1, maxRetries, regAt)

\* ModemManager::connectNetwork(maxRetries); initialized: _initialized;
\* e.simReady: getSimStatus() = SIM_READY; lk: the link at the call
ConnectNetwork(initialized, lk, maxRetries, e) ==
    IF ~initialized
    THEN [ ok |-> FALSE, calls |-> << >>, link |-> lk ]
    ELSE IF ~e.simReady
    THEN [ ok |-> FALSE, calls |-> <<"simCheck">>, link |-> lk ]
    ELSE IF NetUp(lk)
    THEN [ ok |-> TRUE, calls |-> <<"simCheck", "netCheck">>, link |-> lk ]
    ELSE [ ok |-> (e.regAt \in 1..maxRetries),
           calls |-> <<"simCheck", "netCheck">>
                     \o NetworkAttempts(1, maxRetries, e.regAt),
           link |-> IF e.regAt \in 1..maxRetries THEN "net" ELSE lk ]

\* the attempts of the retry loop of connectGprs(maxRetries): the bearer comes
\* up in attempt actAt (0, or beyond maxRetries: in none of them)
RECURSIVE GprsAttempts(_, _, _)
GprsAttempts(attempt, maxRetries, actAt) ==
    IF attempt > maxRetries
    THEN << >>
    ELSE IF attempt = actAt
    THEN <<"wdtSuspend", "gprsConnect", "gprsCheck", "wdtResume">>
    ELSE <<"wdtSuspend", "gprsConnect", "wdtResume", "backoff">>
         \o GprsAttempts(attempt + 1, maxRetries, actAt)

\* ModemManager::connectGprs(maxRetries)
ConnectGprs(initialized, lk, maxRetries, e) ==
    IF GprsUp(lk)
    THEN [ ok |-> TRUE, calls |-> <<"gprsCheck">>, link |-> lk ]
    ELSE
      LET n == IF NetUp(lk)
               THEN [ ok |-> TRUE, calls |-> << >>, link |-> lk ]
               ELSE ConnectNetwork(initialized, lk, 1, e)
          pre == <<"gprsCheck", "netCheck">> \o n.calls
      IN  IF ~n.ok
          THEN [ ok |-> FALSE, calls |-> pre, link |-> n.link ]
          ELSE [ ok |-> (e.actAt \in 1..maxRetries),
                 calls |-> pre \o GprsAttempts(1, maxRetries, e.actAt),
                 link |-> IF e.actAt \in 1..maxRetries THEN "gprs" ELSE n.link ]

\* ModemManager::disconnectGprs()
DisconnectGprs(lk, responsive) ==
    IF responsive
    THEN [ ok |-> TRUE, calls |-> <<"probe", "gprsDisconnect">>,
           link |-> IF GprsUp(lk) THEN "net" ELSE lk ]
    ELSE [ ok |-> TRUE, calls |-> <<"probe">>, link |-> lk ]

(***************************************************************************)
(* ModemManager: connection failure tracker                                *)
(***************************************************************************)
ModemBoot ==
    [ lastConnectionAttempt |-> 0,
      consecutiveFailures   |-> 0,
      backoffDelay          |-> 0,
      lastModemReset        |-> 0,
      lastResponsiveTime    |-> 0 ]

\* a slip: the backoff boundary itself still counts as backoff
ShouldAttemptConnection_Inclusive(m, t) ==
    IF m.lastConnectionAttempt = 0
    THEN TRUE
    ELSE IF m.backoffDelay > 0 /\ USub(t, m.lastConnectionAttempt) <= m.backoffDelay
         THEN FALSE
         ELSE TRUE

\* ModemManager::_shouldAttemptConnection, the value it returns at millis() = t
ShouldAttemptConnection(m, t) ==
    IF m.lastConnectionAttempt = 0
    THEN TRUE
    ELSE IF m.backoffDelay > 0 /\ USub(t, m.lastConnectionAttempt) < m.backoffDelay
         THEN FALSE
         ELSE TRUE

\* ModemManager::_shouldAttemptConnection, the tracker it leaves
AfterShouldAttempt(m, t) ==
    IF ShouldAttemptConnection(m, t)
    THEN [m EXCEPT !.lastConnectionAttempt = t]
    ELSE m

\* a slip: the delay is not limited to MAX_BACKOFF_DELAY
BackoffAfter_Uncapped(n) ==
    MIN_BACKOFF_DELAY * (2 ^ Min(n - 1, 4))

\* the backoff after the n-th consecutive failure
BackoffAfter(n) ==
    Min(MIN_BACKOFF_DELAY * (2 ^ Min(n - 1, 4)), MAX_BACKOFF_DELAY)

\* ModemManager::_recordConnectionFailure
RecordConnectionFailure(m) ==
    [m EXCEPT !.consecutiveFailures = m.consecutiveFailures + 1,
              !.backoffDelay = BackoffAfter(m.consecutiveFailures + 1)]

\* a slip: a success leaves the backoff delay in place
RecordConnectionSuccess_KeepsDelay(m, t) ==
    [m EXCEPT !.consecutiveFailures = 0, !.lastResponsiveTime = t]

\* ModemManager::_recordConnectionSuccess at millis() = t
RecordConnectionSuccess(m, t) ==
    [m EXCEPT !.consecutiveFailures = 0,
              !.backoffDelay = 0,
              !.lastResponsiveTime = t]

\* a slip: the unresponsive branch forgets the minimum reset interval
NeedsReset_UngatedTimeout(m, t) ==
    IF m.consecutiveFailures >= MAX_CONSECUTIVE_FAILURES
       /\ USub(t, m.lastModemReset) >= MIN_RESET_INTERVAL
    THEN TRUE
    ELSE IF m.lastResponsiveTime > 0
            /\ USub(t, m.lastResponsiveTime) > UNRESPONSIVE_TIMEOUT
         THEN TRUE
         ELSE FALSE

\* a slip: the failure threshold is not consulted
NeedsReset_NoThreshold(m, t) ==
    IF USub(t, m.lastModemReset) >= MIN_RESET_INTERVAL
    THEN TRUE
    ELSE FALSE

\* ModemManager::needsReset at millis() = t
NeedsReset(m, t) ==
    IF m.consecutiveFailures >= MAX_CONSECUTIVE_FAILURES
       /\ USub(t, m.lastModemReset) >= MIN_RESET_INTERVAL
    THEN TRUE
    ELSE IF m.lastResponsiveTime > 0
            /\ USub(t, m.lastResponsiveTime) > UNRESPONSIVE_TIMEOUT
            /\ USub(t, m.lastModemReset) >= MIN_RESET_INTERVAL
         THEN TRUE
         ELSE FALSE

\* a slip: the time of the reset is recorded only when the reset succeeds
ResetModem_StampOnSuccess(m, t, responsive, tEnd) ==
    IF responsive
    THEN [m EXCEPT !.lastModemReset = t,
                   !.consecutiveFailures = 0,
                   !.lastResponsiveTime = tEnd]
    ELSE m

\* ModemManager::resetModem entered at millis() = t; the modem answers the
\* liveness probe (responsive) or not, and the probe loop ends at millis() = tEnd
ResetModem(m, t, responsive, tEnd) ==
    IF responsive
    THEN [m EXCEPT !.lastModemReset = t,
                   !.consecutiveFailures = 0,
                   !.lastResponsiveTime = tEnd]
    ELSE [m EXCEPT !.lastModemReset = t]

\* ModemManager::connectNetwork(1) and connectGprs(1) as maintainConnection
\* uses them: the link after the attempts, given whether registration (netOk)
\* and bearer activation (gprsOk) succeed
LinkAfterNetwork(lk, netOk) ==
    IF lk = "off" THEN (IF netOk THEN "net" ELSE "off") ELSE lk

LinkAfterGprs(lk, gprsOk) ==
    IF lk = "net" THEN (IF gprsOk THEN "gprs" ELSE "net") ELSE lk

\* a slip: a failed reset returns without recording the failure
MaintainConnection_SilentResetFailure(m, lk, t, e) ==
    IF ~ShouldAttemptConnection(m, t)
    THEN [modem |-> m, link |-> lk, attempt |-> FALSE, needs |-> FALSE,
          reset |-> "none", outcome |-> "skipped", t |-> t]
    ELSE
      LET m1 == AfterShouldAttempt(m, t)
          needs == NeedsReset(m1, t)
          m2 == IF needs THEN ResetModem(m1, t, e.resetOk, t + e.d) ELSE m1
          lk2 == IF needs THEN "off" ELSE lk
          rs == IF needs THEN (IF e.resetOk THEN "ok" ELSE "failed") ELSE "none"
          lk3 == LinkAfterNetwork(lk2, e.netOk)
          lk4 == LinkAfterGprs(lk3, e.gprsOk)
      IN  IF needs /\ ~e.resetOk
          THEN [modem |-> m2, link |-> lk2, attempt |-> TRUE,
                needs |-> needs, reset |-> rs, outcome |-> "failure", t |-> t + e.d]
          ELSE IF lk3 = "off"
          THEN [modem |-> RecordConnectionFailure(m2), link |-> lk3, attempt |-> TRUE,
                needs |-> needs, reset |-> rs, outcome |-> "failure", t |-> t + e.d]
          ELSE IF lk4 # "gprs"
          THEN [modem |-> RecordConnectionFailure(m2), link |-> lk4, attempt |-> TRUE,
                needs |-> needs, reset |-> rs, outcome |-> "failure", t |-> t + e.d]
          ELSE [modem |-> RecordConnectionSuccess(m2, t + e.d), link |-> lk4, attempt |-> TRUE,
                needs |-> needs, reset |-> rs, outcome |-> "success", t |-> t + e.d]

\* ModemManager::maintainConnection(true) entered at millis() = t.
\* e.resetOk, e.netOk, e.gprsOk: what the modem does; e.d: how long the call
\* blocks.  The result carries the tracker, the link and what happened.
MaintainConnection(m, lk, t, e) ==
    IF ~ShouldAttemptConnection(m, t)
    THEN [modem |-> m, link |-> lk, attempt |-> FALSE, needs |-> FALSE,
          reset |-> "none", outcome |-> "skipped", t |-> t]
    ELSE
      LET m1 == AfterShouldAttempt(m, t)
          needs == NeedsReset(m1, t)
          m2 == IF needs THEN ResetModem(m1, t, e.resetOk, t + e.d) ELSE m1
          lk2 == IF needs THEN "off" ELSE lk
          rs == IF needs THEN (IF e.resetOk THEN "ok" ELSE "failed") ELSE "none"
          lk3 == LinkAfterNetwork(lk2, e.netOk)
          lk4 == LinkAfterGprs(lk3, e.gprsOk)
      IN  IF needs /\ ~e.resetOk
          THEN [modem |-> RecordConnectionFailure(m2), link |-> lk2, attempt |-> TRUE,
                needs |-> needs, reset |-> rs, outcome |-> "failure", t |-> t + e.d]
          ELSE IF lk3 = "off"
          THEN [modem |-> RecordConnectionFailure(m2), link |-> lk3, attempt |-> TRUE,
                needs |-> needs, reset |-> rs, outcome |-> "failure", t |-> t + e.d]
          ELSE IF lk4 # "gprs"
          THEN [modem |-> RecordConnectionFailure(m2), link |-> lk4, attempt |-> TRUE,
                needs |-> needs, reset |-> rs, outcome |-> "failure", t |-> t + e.d]
          ELSE [modem |-> RecordConnectionSuccess(m2, t + e.d), link |-> lk4, attempt |-> TRUE,
                needs |-> needs, reset |-> rs, outcome |-> "success", t |-> t + e.d]

\* ModemManager::maintainConnection(true), what it does to the board and the
\* modem, for the same inputs.  A reset that succeeds is answered at the first
\* probe; a registration that fails has timed out with the SIM ready.
MaintainConnectionCalls(m, lk, t, e) ==
    IF ~ShouldAttemptConnection(m, t)
    THEN << >>
    ELSE
      LET needs == NeedsReset(AfterShouldAttempt(m, t), t)
          rst == IF needs THEN ResetModemCalls(IF e.resetOk THEN 1 ELSE 0).calls ELSE << >>
          lk2 == IF needs THEN "off" ELSE lk
          ce == [ simReady |-> TRUE,
                  regAt |-> IF e.netOk THEN 1 ELSE 0,
                  actAt |-> IF e.gprsOk THEN 1 ELSE 0 ]
          net == IF NetUp(lk2)
                 THEN [ ok |-> TRUE, calls |-> << >>, link |-> lk2 ]
                 ELSE ConnectNetwork(TRUE, lk2, 1, ce)
          gprs == IF GprsUp(net.link)
                  THEN [ ok |-> TRUE, calls |-> << >>, link |-> net.link ]
                  ELSE ConnectGprs(TRUE, net.link, 1, ce)
      IN  IF needs /\ ~e.resetOk
          THEN rst
          ELSE IF ~net.ok
          THEN rst \o <<"netCheck">> \o net.calls
          ELSE rst \o <<"netCheck">> \o net.calls \o <<"gprsCheck">> \o gprs.calls

\* ModemManager::maintainConnection(false): tear down the bearer only
MaintainInactive(lk, responsive) ==
    IF lk = "gprs" /\ responsive THEN "net" ELSE lk

\* what the modem may do during one blocking call.  A failed reset ends the
\* call and a failed registration ends it before the bearer is tried, so the
\* later answers are fixed to FALSE in those cases.
ModemEnv(maxD, quantum) ==
    { r \in [ resetOk : BOOLEAN, netOk : BOOLEAN, gprsOk : BOOLEAN,
              d : { k * quantum : k \in 0..maxD } ] :
        /\ r.gprsOk => r.netOk
        /\ r.netOk => r.resetOk }

(***************************************************************************)
(* AiolosHttpClient: HTTP backoff                                          *)
(***************************************************************************)
HttpBoot == [ failedAttempts |-> 0, backoffDelay |-> 0, lastAttemptTime |-> 0 ]

\* a slip: still throttled at the instant the backoff has elapsed
IsConnectionThrottled_Inclusive(h, t) ==
    IF h.failedAttempts = 0
    THEN FALSE
    ELSE USub(t, h.lastAttemptTime) <= h.backoffDelay

\* AiolosHttpClient::isConnectionThrottled at millis() = t
IsConnectionThrottled(h, t) ==
    IF h.failedAttempts = 0
    THEN FALSE
    ELSE USub(t, h.lastAttemptTime) < h.backoffDelay

\* the HTTP backoff after the k-th consecutive failed request
HttpBackoffAfter(k) ==
    Min(BASE_BACKOFF_DELAY_MS * (2 ^ Min(k - 1, 10)), MAX_BACKOFF_DELAY_MS)

\* a slip: the count of failed attempts is not held at 255
HandleHttpFailure_NoSaturation(h, t) ==
    LET k == h.failedAttempts + 1
    IN  [ failedAttempts |-> k, backoffDelay |-> HttpBackoffAfter(k), lastAttemptTime |-> t ]

\* AiolosHttpClient::_handleHttpFailure at millis() = t (_failedAttempts is a uint8_t)
HandleHttpFailure(h, t) ==
    LET k == IF h.failedAttempts < 255 THEN h.failedAttempts + 1 ELSE h.failedAttempts
    IN  [ failedAttempts |-> k, backoffDelay |-> HttpBackoffAfter(k), lastAttemptTime |-> t ]

\* AiolosHttpClient::_resetBackoff
ResetBackoff(h) ==
    IF h.failedAttempts > 0
    THEN [h EXCEPT !.failedAttempts = 0, !.backoffDelay = 0]
    ELSE h

\* AiolosHttpClient::resetBackoffForSafety (called by main.cpp; its body is not
\* part of the sources at hand): the HTTP backoff state is zeroed
ResetBackoffForSafety(h) ==
    [h EXCEPT !.failedAttempts = 0, !.backoffDelay = 0]

\* What the server does with a request: "ok" is a 2xx status with a
\* well-formed body, "badbody" a 2xx status with a body that is not valid
\* JSON; every other answer ("fail", "status": a status outside 2xx,
\* "transport": no connection, a timeout or an unreadable response) is not 2xx.
Is2xx(answer) == answer \in {"ok", "badbody"}

\* a slip: the request does not consult the backoff
PerformRequest_NoThrottleCheck(h, lk, t, answer) ==
    IF lk # "gprs"
    THEN h
    ELSE IF Is2xx(answer)
    THEN ResetBackoff(h)
    ELSE HandleHttpFailure(h, t)

\* AiolosHttpClient::_performRequest at millis() = t with the server's answer
PerformRequest(h, lk, t, answer) ==
    IF IsConnectionThrottled(h, t)
    THEN h
    ELSE IF lk # "gprs"
    THEN h
    ELSE IF Is2xx(answer)
    THEN ResetBackoff(h)
    ELSE HandleHttpFailure(h, t)

\* the backoff handlers _performRequest calls, in order; sendDiagnostics,
\* sendWindData, sendTemperatureData and confirmOtaStarted call
\* _performRequest and no handler of their own
PerformRequestCalls(h, lk, t, answer) ==
    IF IsConnectionThrottled(h, t)
    THEN << >>
    ELSE IF lk # "gprs"
    THEN << >>
    ELSE IF Is2xx(answer)
    THEN <<"resetBackoff">>
    ELSE <<"handleHttpFailure">>

\* the backoff handlers _performRawGet calls, in order
PerformRawGetCalls(h, lk, t, answer) ==
    IF IsConnectionThrottled(h, t)
    THEN << >>
    ELSE IF lk # "gprs"
    THEN << >>
    ELSE IF Is2xx(answer)
    THEN <<"resetBackoff">>
    ELSE <<"handleHttpFailure">>

\* the backoff handlers fetchConfiguration calls, in order: _performRawGet's,
\* and after a 2xx status whose body does not parse, _handleHttpFailure
FetchConfigurationCalls(h, lk, t, answer) ==
    LET raw == PerformRawGetCalls(h, lk, t, answer)
    IN  IF raw = <<"resetBackoff">> /\ answer = "badbody"
        THEN Append(raw, "handleHttpFailure")
        ELSE raw

\* the backoff state after the calls, all at millis() = t
RECURSIVE ApplyCalls(_, _, _)
ApplyCalls(h, t, calls) ==
    IF calls = << >>
    THEN h
    ELSE ApplyCalls(IF Head(calls) = "resetBackoff"
                    THEN ResetBackoff(h)
                    ELSE HandleHttpFailure(h, t),
                    t, Tail(calls))

\* AiolosHttpClient::fetchConfiguration at millis() = t
FetchConfiguration(h, lk, t, answer) ==
    ApplyCalls(h, t, FetchConfigurationCalls(h, lk, t, answer))

\* the request operations: "post" is any of sendDiagnostics, sendWindData,
\* sendTemperatureData, confirmOtaStarted; "config" is fetchConfiguration
RequestKinds == {"post", "config"}

RequestCalls(kind, h, lk, t, answer) ==
    IF kind = "config"
    THEN FetchConfigurationCalls(h, lk, t, answer)
    ELSE PerformRequestCalls(h, lk, t, answer)

\* what the request operation returns to its caller: true after a 2xx status
\* (fetchConfiguration: and a body that parses)
RequestReturns(kind, h, lk, t, answer) ==
    /\ ~IsConnectionThrottled(h, t)
    /\ lk = "gprs"
    /\ IF kind = "config" THEN answer = "ok" ELSE Is2xx(answer)

SendRequest(kind, h, lk, t, answer) ==
    IF kind = "config"
    THEN FetchConfiguration(h, lk, t, answer)
    ELSE PerformRequest(h, lk, t, answer)

\* the requests of one iteration, in order
RECURSIVE PerformRequests(_, _, _, _)
PerformRequests(h, lk, t, answers) ==
    IF answers = << >>
    THEN h
    ELSE PerformRequests(PerformRequest(h, lk, t, Head(answers)), lk, t, Tail(answers))

\* whether one of the requests reaches the network
RECURSIVE RequestsSent(_, _, _, _)
RequestsSent(h, lk, t, answers) ==
    IF answers = << >>
    THEN FALSE
    ELSE \/ (~IsConnectionThrottled(h, t) /\ lk = "gprs")
         \/ RequestsSent(PerformRequest(h, lk, t, Head(answers)), lk, t, Tail(answers))

(***************************************************************************)
(* main.cpp: globals of the safety orchestrator                            *)
(***************************************************************************)
MainBoot ==
    [ lastTimeUpdate             |-> 0,
      otaActive                  |-> FALSE,
      lastConnectionFailureTime  |-> 0,
      connectionFailureCount     |-> 0,
      emergencyRecoveryMode      |-> FALSE,
      emergencyRecoveryStartTime |-> 0,
      firstOfflineTime           |-> 0,
      hasBeenOnlineRecently      |-> FALSE,
      lastBackoffResetTime       |-> 0,
      currentHour                |-> 0,
      currentMinute              |-> 0,
      currentSecond              |-> 0,
      lastNetworkTimeUpdate      |-> 0,
      dynamicSleepStartHour      |-> DEFAULT_SLEEP_START_HOUR,
      dynamicSleepEndHour        |-> DEFAULT_SLEEP_END_HOUR,
      lastOtaCheck               |-> 0,
      dynamicOtaHour             |-> DEFAULT_OTA_HOUR,
      dynamicOtaMinute           |-> DEFAULT_OTA_MINUTE,
      dynamicOtaDuration         |-> DEFAULT_OTA_DURATION ]

\* a slip: init() reports a modem that does not power on
ModemInit_FailsOnPowerOn(powerOnOk, simReady) ==
    powerOnOk

\* ModemManager::init: the value it returns, given whether powerOn() succeeds
\* and whether the SIM becomes ready
ModemInit(powerOnOk, simReady) ==
    IF ~powerOnOk
    THEN TRUE
    ELSE IF ~simReady
    THEN TRUE
    ELSE TRUE

\* a slip: the offline limit has to be exceeded
OfflineTooLong_Strict(g, t) ==
    USub(t, g.firstOfflineTime) > MAX_OFFLINE_TIME

\* handleOfflineSafetyMechanisms: the offline time has reached the limit
OfflineTooLong(g, t) ==
    USub(t, g.firstOfflineTime) >= MAX_OFFLINE_TIME

\* handleOfflineSafetyMechanisms: the periodic backoff reset is due
AmnestyDue(g, t) ==
    USub(t, g.lastBackoffResetTime) >= BACKOFF_RESET_INTERVAL

\* a slip: the periodic backoff reset leaves the failure counter alone
AmnestyMain_KeepsCount(g, t) ==
    [g EXCEPT !.lastBackoffResetTime = t,
              !.emergencyRecoveryMode = FALSE,
              !.emergencyRecoveryStartTime =
                  IF g.emergencyRecoveryMode THEN 0 ELSE g.emergencyRecoveryStartTime]

\* handleOfflineSafetyMechanisms: what the periodic backoff reset does to the
\* globals of main.cpp
AmnestyMain(g, t) ==
    [g EXCEPT !.lastBackoffResetTime = t,
              !.connectionFailureCount = 0,
              !.lastConnectionFailureTime =
                  IF g.connectionFailureCount > 0 THEN 0 ELSE g.lastConnectionFailureTime,
              !.emergencyRecoveryMode = FALSE,
              !.emergencyRecoveryStartTime =
                  IF g.emergencyRecoveryMode THEN 0 ELSE g.emergencyRecoveryStartTime]

\* handleOfflineSafetyMechanisms(currentMillis = t, isOnline): the globals it
\* leaves, whether it restarts the device and whether it resets the backoffs
HandleOfflineSafetyMechanisms(g, h, t, isOnline) ==
    IF isOnline
    THEN IF ~g.hasBeenOnlineRecently
         THEN [ main |-> [g EXCEPT !.hasBeenOnlineRecently = TRUE,
                                   !.firstOfflineTime = 0,
                                   !.lastBackoffResetTime = t],
                http |-> h, restart |-> FALSE, amnesty |-> FALSE ]
         ELSE [ main |-> g, http |-> h, restart |-> FALSE, amnesty |-> FALSE ]
    ELSE
      LET g1 == IF g.hasBeenOnlineRecently
                THEN [g EXCEPT !.firstOfflineTime = t,
                               !.hasBeenOnlineRecently = FALSE,
                               !.lastBackoffResetTime = t]
                ELSE g
      IN  IF g1.firstOfflineTime > 0
          THEN IF OfflineTooLong(g1, t)
               THEN [ main |-> g1, http |-> h, restart |-> TRUE, amnesty |-> FALSE ]
               ELSE IF AmnestyDue(g1, t)
               THEN [ main |-> AmnestyMain(g1, t), http |-> ResetBackoffForSafety(h),
                      restart |-> FALSE, amnesty |-> TRUE ]
               ELSE [ main |-> g1, http |-> h, restart |-> FALSE, amnesty |-> FALSE ]
          ELSE [ main |-> g1, http |-> h, restart |-> FALSE, amnesty |-> FALSE ]

(***************************************************************************)
(* main.cpp: the sleep window and deep sleep (release build: DEBUG_MODE is *)
(* not defined)                                                            *)
(***************************************************************************)
\* isSleepTime(): time older than this is not trusted
StaleAfter == 2 * 3600 * 1000

\* a slip: the age of the last time synchronisation is not looked at
IsSleepTime_IgnoresAge(g, t) ==
    IF g.currentHour = 0 /\ g.currentMinute = 0 /\ g.currentSecond = 0
    THEN FALSE
    ELSE IF \/ g.currentHour < 0 \/ g.currentHour > 23
            \/ g.dynamicSleepStartHour < 0 \/ g.dynamicSleepStartHour > 23
            \/ g.dynamicSleepEndHour < 0 \/ g.dynamicSleepEndHour > 23
    THEN FALSE
    ELSE IF g.dynamicSleepStartHour = g.dynamicSleepEndHour
    THEN FALSE
    ELSE IF g.dynamicSleepStartHour < g.dynamicSleepEndHour
    THEN g.currentHour >= g.dynamicSleepStartHour /\ g.currentHour < g.dynamicSleepEndHour
    ELSE g.currentHour >= g.dynamicSleepStartHour \/ g.currentHour < g.dynamicSleepEndHour

\* isSleepTime() at millis() = t
IsSleepTime(g, t) ==
    IF g.currentHour = 0 /\ g.currentMinute = 0 /\ g.currentSecond = 0
    THEN FALSE
    ELSE IF g.lastNetworkTimeUpdate > 0 /\ USub(t, g.lastNetworkTimeUpdate) > StaleAfter
    THEN FALSE
    ELSE IF \/ g.currentHour < 0 \/ g.currentHour > 23
            \/ g.dynamicSleepStartHour < 0 \/ g.dynamicSleepStartHour > 23
            \/ g.dynamicSleepEndHour < 0 \/ g.dynamicSleepEndHour > 23
    THEN FALSE
    ELSE IF g.dynamicSleepStartHour = g.dynamicSleepEndHour
    THEN FALSE
    ELSE IF g.dynamicSleepStartHour < g.dynamicSleepEndHour
    THEN g.currentHour >= g.dynamicSleepStartHour /\ g.currentHour < g.dynamicSleepEndHour
    ELSE g.currentHour >= g.dynamicSleepStartHour \/ g.currentHour < g.dynamicSleepEndHour

\* a slip: the sleep is not limited to 23 hours
SleepSeconds_NoUpperClamp(g, hour, minute) ==
    LET targetSeconds == (hour * 3600) + (minute * 60)
        currentSeconds == (g.currentHour * 3600) + (g.currentMinute * 60) + g.currentSecond
        d == targetSeconds - currentSeconds
        sleepSeconds == IF d < 0 THEN d + 24 * 3600 ELSE d
    IN  IF sleepSeconds < 60 THEN 60 ELSE sleepSeconds

\* enterDeepSleepUntil(hour, minute): the seconds it sleeps for
SleepSeconds(g, hour, minute) ==
    LET targetSeconds == (hour * 3600) + (minute * 60)
        currentSeconds == (g.currentHour * 3600) + (g.currentMinute * 60) + g.currentSecond
        d == targetSeconds - currentSeconds
        sleepSeconds == IF d < 0 THEN d + 24 * 3600 ELSE d
    IN  IF sleepSeconds < 60 THEN 60
        ELSE IF sleepSeconds > 23 * 3600 THEN 23 * 3600
        ELSE sleepSeconds

\* enterDeepSleepUntil(hour, minute) validates its arguments and the clock
SleepTimesValid(g, hour, minute) ==
    /\ ~(hour < 0 \/ hour > 23 \/ minute < 0 \/ minute > 59)
    /\ ~(g.currentHour < 0 \/ g.currentHour > 23
          \/ g.currentMinute < 0 \/ g.currentMinute > 59)

\* a slip: the bearer is torn down before the times are validated
EnterDeepSleepUntil_TeardownFirst(g, lk, hour, minute, r1, r2) ==
    LET down == IF GprsUp(lk)
                THEN DisconnectGprs(lk, r1)
                ELSE [ ok |-> TRUE, calls |-> << >>, link |-> lk ]
        off == PowerOff(r2)
    IN  IF ~SleepTimesValid(g, hour, minute)
        THEN [ slept |-> FALSE, seconds |-> 0, calls |-> <<"gprsCheck">> \o down.calls,
               link |-> down.link, main |-> g ]
        ELSE [ slept |-> TRUE,
               seconds |-> SleepSeconds(g, hour, minute),
               calls |-> <<"gprsCheck">> \o down.calls \o <<"wdtDeinit">>
                         \o (IF g.otaActive THEN <<"otaEnd">> ELSE << >>)
                         \o off.calls \o <<"armTimer", "deepSleep">>,
               link |-> "off",
               main |-> [g EXCEPT !.otaActive = FALSE] ]

\* enterDeepSleepUntil(hour, minute) with the link lk; r1, r2: the modem
\* answers testAT() in disconnectGprs() and in powerOff().  slept: the chip
\* has entered deep sleep; seconds: what the wake timer was armed with.
EnterDeepSleepUntil(g, lk, hour, minute, r1, r2) ==
    IF ~SleepTimesValid(g, hour, minute)
    THEN [ slept |-> FALSE, seconds |-> 0, calls |-> << >>, link |-> lk, main |-> g ]
    ELSE
      LET down == IF GprsUp(lk)
                  THEN DisconnectGprs(lk, r1)
                  ELSE [ ok |-> TRUE, calls |-> << >>, link |-> lk ]
          off == PowerOff(r2)
      IN  [ slept |-> TRUE,
            seconds |-> SleepSeconds(g, hour, minute),
            calls |-> <<"gprsCheck">> \o down.calls \o <<"wdtDeinit">>
                      \o (IF g.otaActive THEN <<"otaEnd">> ELSE << >>)
                      \o off.calls \o <<"armTimer", "deepSleep">>,
            link |-> "off",
            main |-> [g EXCEPT !.otaActive = FALSE] ]

(***************************************************************************)
(* OtaManager.cpp and main.cpp: the scheduled OTA window                   *)
(***************************************************************************)
\* a slip: a window that runs past midnight is cut off at midnight
IsOtaWindowActive_NoWrap(hour, minute, otaHour, otaMinute, otaDuration) ==
    LET currentMinutesSinceMidnight == hour * 60 + minute
        otaStartMinutesSinceMidnight == otaHour * 60 + otaMinute
        otaEndMinutesSinceMidnight == otaStartMinutesSinceMidnight + otaDuration
    IN  /\ currentMinutesSinceMidnight >= otaStartMinutesSinceMidnight
        /\ currentMinutesSinceMidnight < otaEndMinutesSinceMidnight

\* OtaManager::isOtaWindowActive
IsOtaWindowActive(hour, minute, otaHour, otaMinute, otaDuration) ==
    LET currentMinutesSinceMidnight == hour * 60 + minute
        otaStartMinutesSinceMidnight == otaHour * 60 + otaMinute
        otaEndMinutesSinceMidnight == otaStartMinutesSinceMidnight + otaDuration
    IN  IF otaEndMinutesSinceMidnight <= 24 * 60
        THEN /\ currentMinutesSinceMidnight >= otaStartMinutesSinceMidnight
             /\ currentMinutesSinceMidnight < otaEndMinutesSinceMidnight
        ELSE \/ currentMinutesSinceMidnight >= otaStartMinutesSinceMidnight
             \/ currentMinutesSinceMidnight < otaEndMinutesSinceMidnight - 24 * 60

\* checkAndInitOta(): the globals it leaves, what it returns, whether it
\* asked isOtaWindowActive() and what it did to the board; initOk: whether
\* otaManager.init() succeeds
CheckAndInitOta(g, initOk) ==
    IF g.otaActive
    THEN [ main |-> g, returned |-> TRUE, answer |-> "none", calls |-> << >> ]
    ELSE IF IsOtaWindowActive(g.currentHour, g.currentMinute, g.dynamicOtaHour,
                              g.dynamicOtaMinute, g.dynamicOtaDuration)
    THEN [ main |-> [g EXCEPT !.otaActive = initOk], returned |-> initOk,
           answer |-> "window", calls |-> <<"wdtDeinit", "otaInit", "wdtSetup">> ]
    ELSE [ main |-> g, returned |-> FALSE, answer |-> "noWindow", calls |-> << >> ]

(***************************************************************************)
(* History of the last handler                                             *)
(***************************************************************************)
ObsNone ==
    [ op |-> "none", seq |-> 0, t |-> 0, attempt |-> FALSE, needs |-> FALSE,
      reset |-> "none", outcome |-> "none", eval |-> "none",
      amnesty |-> FALSE, entered |-> FALSE, ereset |-> "none",
      modemUsed |-> FALSE, httpUsed |-> FALSE, failed |-> FALSE,
      cleared |-> FALSE,
      lastEval |-> "none",
      kind |-> "none", answer |-> "none", calls |-> << >>, returned |-> FALSE,
      lastEntry |-> "none", arg |-> 0, arg2 |-> 0, maintained |-> FALSE,
      everOnline |-> FALSE, lastReset |-> 0 - 1, failingSince |-> 0 - 1,
      failedAt |-> 0 - 1 ]

\* the history of a handler of kind op entered at millis() = t
ObsOf(op, t) ==
    [ObsNone EXCEPT !.op = op, !.seq = 1 - obs.seq, !.t = t,
                    !.lastEval = obs.lastEval, !.everOnline = obs.everOnline,
                    !.lastReset = obs.lastReset, !.failedAt = obs.failedAt]

\* the history of a call of maintainConnection(true) that returned at
\* millis() = tEnd: a failure is recorded as the call returns, and its time
\* is kept until an outcome is recorded again (none on record: -1)
ObsRecord(o, outcome, tEnd) ==
    IF outcome = "failure" THEN [o EXCEPT !.failedAt = tEnd]
    ELSE IF outcome = "success" THEN [o EXCEPT !.failedAt = 0 - 1]
    ELSE o

\* the history of a handler that may call resetModem() on entry, at
\* millis() = t: when it does (called), the time of that reset is kept, and
\* the time since the reset before it is noted (0 when there was none)
ObsReset(o, called, t) ==
    IF called
    THEN [o EXCEPT !.lastReset = t,
                   !.arg = IF obs.lastReset < 0 THEN 0 ELSE t - obs.lastReset]
    ELSE o

\* this step is a call of a handler of kind op
CallStep(op) == obs'.seq # obs.seq /\ obs'.op = op

(***************************************************************************)
(* SpecTracker: the connection failure tracker on its own                  *)
(***************************************************************************)
\* the board after ModemManager::init() on a modem that is already on
HwInitialised ==
    HwAfter(HwBoot,
            InitHardware \o PowerOn([ timerWake |-> FALSE, a |-> 1,
                                      restartOk |-> TRUE, initOk |-> TRUE ]).calls)

InitTracker ==
    /\ now = 0
    /\ phase = "run"
    /\ restartCause = "none"
    /\ link = "off"
    /\ modem = ModemBoot
    /\ http = HttpBoot
    /\ main = MainBoot
    /\ obs = ObsNone
    /\ hw = HwBoot

TrackerHorizon == MaxTrackerQuanta * TrackerQuantum

\* millis() advances between two calls
TrackerTick ==
    /\ now < TrackerHorizon
    /\ now' = now + TrackerQuantum
    /\ UNCHANGED <<phase, restartCause, link, modem, http, main, obs, hw>>

\* nothing calls the tracker until the pending backoff has elapsed
TrackerWait ==
    /\ modem.backoffDelay > 0
    /\ now < modem.lastConnectionAttempt + modem.backoffDelay
    /\ modem.lastConnectionAttempt + modem.backoffDelay <= MaxWaitQuanta * TrackerQuantum
    /\ now' = modem.lastConnectionAttempt + modem.backoffDelay
    /\ UNCHANGED <<phase, restartCause, link, modem, http, main, obs, hw>>

\* the network drops the bearer or the registration
TrackerLinkDrop ==
    /\ link # "off"
    /\ link' = "off"
    /\ UNCHANGED <<now, phase, restartCause, modem, http, main, obs, hw>>

\* a caller invokes maintainConnection(true); hardware initialisation has
\* taken time before the first call, so millis() > 0
TrackerMaintain ==
    /\ now > 0
    /\ \E e \in ModemEnv(MaxBlockQuanta, TrackerQuantum) :
         \E r \in {MaintainConnection(modem, link, now, e)} :
             /\ r.t <= TrackerHorizon \/ r.t = now
             /\ modem' = r.modem
             /\ link' = r.link
             /\ now' = r.t
             /\ obs' = ObsRecord(ObsReset([ObsOf("maintain", now) EXCEPT
                                                 !.attempt = r.attempt, !.needs = r.needs,
                                                 !.reset = r.reset, !.outcome = r.outcome],
                                           r.reset # "none", now),
                                  r.outcome, r.t)
    /\ UNCHANGED <<phase, restartCause, http, main, hw>>

\* a caller asks needsReset() and, when it says so, calls resetModem()
\* (main.cpp, the emergency path of loop())
TrackerEmergencyReset ==
    /\ now > 0
    /\ \E ok \in BOOLEAN, d \in { k * TrackerQuantum : k \in 0..MaxBlockQuanta } :
         LET needs == NeedsReset(modem, now)
         IN  /\ now + d <= TrackerHorizon \/ d = 0
             /\ modem' = IF needs THEN ResetModem(modem, now, ok, now + d) ELSE modem
             /\ link' = IF needs THEN "off" ELSE link
             /\ now' = IF needs THEN now + d ELSE now
             /\ obs' = ObsReset([ObsOf("emergency", now) EXCEPT !.needs = needs,
                                       !.reset = IF needs THEN (IF ok THEN "ok" ELSE "failed")
                                                 ELSE "none"],
                                 needs, now)
    /\ UNCHANGED <<phase, restartCause, http, main, hw>>

NextTracker ==
    \/ TrackerTick
    \/ TrackerWait
    \/ TrackerLinkDrop
    \/ TrackerMaintain
    \/ TrackerEmergencyReset

SpecTracker == InitTracker /\ [][NextTracker]_vars

(***************************************************************************)
(* Spec: the device.  One step is power-up, setup() or one iteration of    *)
(* loop().  An iteration is a chain of stages over a context record c:     *)
(* the objects' state, whether the iteration has returned (done), whether  *)
(* GPRS is up (conn) and what the iteration did (o).                       *)
(***************************************************************************)
\* inside setup() and loop() the blocking calls are instantaneous at the
\* scale of LoopQuantum
RadioEnv == ModemEnv(0, LoopQuantum)

RadioIdle == [ resetOk |-> TRUE, netOk |-> TRUE, gprsOk |-> TRUE, d |-> 0 ]

\* the server's answers to the HTTP requests of one iteration
Answers == UNION { [1..n -> {"ok", "fail"}] : n \in 0..MaxRequests }

\* The surroundings are consulted where the code consults them: each stage
\* has the set of things that may happen to it in context c.
OtaEnv(c) ==
    IF c.done THEN {"idle"}
    ELSE IF c.main.otaActive THEN {"idle", "timeout", "upload"}
    ELSE {"idle", "start"}

TimeUpdateDue(c, t) ==
    USub(t, c.main.lastTimeUpdate) >= DEFAULT_TIME_UPDATE_INTERVAL

SleepEnv(c, t) ==
    IF ~c.done /\ TimeUpdateDue(c, t) THEN BOOLEAN ELSE {FALSE}

EmergencyEnv(c, t) ==
    IF /\ ~c.done
       /\ c.main.connectionFailureCount >= MAX_CONNECTION_FAILURES
       /\ ~c.main.emergencyRecoveryMode
       /\ NeedsReset(c.modem, t)
    THEN BOOLEAN ELSE {TRUE}

MaintainEnv(c, t) ==
    IF /\ ~c.done
       /\ c.link # "gprs"
       /\ c.main.connectionFailureCount < MAX_CONNECTION_FAILURES
       /\ ShouldAttemptConnection(c.modem, t)
    THEN RadioEnv ELSE {RadioIdle}

TrafficEnv(c, t) ==
    IF ~c.done /\ c.conn /\ ~IsConnectionThrottled(c.http, t)
    THEN { e \in [ answers : Answers, sleep : BOOLEAN ] :
             /\ PerformRequests(c.http, c.link, t, e.answers).failedAttempts
                    <= MaxHttpFailures
             /\ e.sleep => e.answers # << >> }
    ELSE { [ answers |-> << >>, sleep |-> FALSE ] }

\* millis() at the next observed iteration: the same, or k quantum marks on
Advance(t, k) == IF k = 0 THEN t ELSE ((t \div LoopQuantum) + k) * LoopQuantum

Ctx(op, t, lk) ==
    [ modem |-> modem, http |-> http, main |-> main, link |-> lk,
      phase |-> "run", cause |-> "none", done |-> FALSE, conn |-> FALSE,
      o |-> [ObsNone EXCEPT !.op = op, !.t = t, !.lastEval = obs.lastEval,
                            !.everOnline = obs.everOnline] ]

Restart(c, why) == [c EXCEPT !.phase = "restarting", !.cause = why, !.done = TRUE]

\* enterDeepSleepUntil: OTA is stopped, the modem is powered off
DeepSleep(c) ==
    [c EXCEPT !.phase = "sleeping", !.done = TRUE, !.link = "off",
              !.main.otaActive = FALSE]

\* a slip: the uptime restart waits until the threshold is exceeded
S_Uptime_Late(c, t) ==
    IF t > UPTIME_RESTART_INTERVAL THEN Restart(c, "uptime") ELSE c

\* loop(): uptime-based restart
S_Uptime(c, t) ==
    IF t >= UPTIME_RESTART_INTERVAL THEN Restart(c, "uptime") ELSE c

\* loop(): OTA handling and the periodic OTA window check; an accepted
\* firmware upload ends in ESP.restart() inside the upload handler
S_Ota(c, t, e) ==
    IF c.done THEN c
    ELSE IF c.main.otaActive /\ e = "upload"
    THEN Restart(c, "ota")
    ELSE IF c.main.otaActive /\ e = "timeout"
    THEN [c EXCEPT !.main.otaActive = FALSE]
    ELSE IF ~c.main.otaActive /\ e = "start"
    THEN [c EXCEPT !.main.otaActive = TRUE]
    ELSE c

\* loop(): periodic network time update and sleep check
S_TimeUpdate(c, t, e) ==
    IF c.done THEN c
    ELSE IF TimeUpdateDue(c, t)
    THEN LET c1 == [c EXCEPT !.main.lastTimeUpdate = t, !.o.modemUsed = TRUE]
         IN  IF e THEN DeepSleep(c1) ELSE c1
    ELSE c

\* loop(): the connection failure counter expires
S_FailureReset(c, t) ==
    IF c.done THEN c
    ELSE IF USub(t, c.main.lastConnectionFailureTime) > CONNECTION_FAILURE_RESET_TIME
            /\ c.main.connectionFailureCount > 0
    THEN [c EXCEPT !.main.connectionFailureCount = 0]
    ELSE c

\* loop(): emergency recovery mode
S_Emergency(c, t, e) ==
    IF c.done THEN c
    ELSE IF c.main.connectionFailureCount >= MAX_CONNECTION_FAILURES
    THEN
      LET c1 == IF ~c.main.emergencyRecoveryMode
                THEN LET needs == NeedsReset(c.modem, t)
                         ce == [c EXCEPT !.main.emergencyRecoveryMode = TRUE,
                                         !.main.emergencyRecoveryStartTime = t,
                                         !.o.entered = TRUE,
                                         !.o.modemUsed = (c.o.modemUsed \/ needs)]
                     IN  IF needs
                         THEN LET cr == [ce EXCEPT
                                            !.modem = ResetModem(c.modem, t, e, t),
                                            !.link = "off"]
                              IN  IF e
                                  THEN [cr EXCEPT !.main.connectionFailureCount = 0,
                                                  !.main.emergencyRecoveryMode = FALSE,
                                                  !.o.ereset = "ok"]
                                  ELSE [cr EXCEPT !.o.ereset = "failed"]
                         ELSE ce
                ELSE c
      IN  IF c1.main.emergencyRecoveryMode
          THEN IF USub(t, c1.main.emergencyRecoveryStartTime) >= EMERGENCY_RECOVERY_DURATION
               THEN [c1 EXCEPT !.main.connectionFailureCount = 0,
                               !.main.emergencyRecoveryMode = FALSE]
               ELSE [c1 EXCEPT !.done = TRUE]
          ELSE c1
    ELSE c

\* loop(): maintain the connection and track connection failures
S_Maintain(c, t, e) ==
    IF c.done THEN c
    ELSE
      LET c1 == IF c.link = "gprs"
                THEN [c EXCEPT !.conn = TRUE, !.o.modemUsed = TRUE,
                               !.o.maintained = TRUE]
                ELSE IF c.main.connectionFailureCount < MAX_CONNECTION_FAILURES
                THEN LET r == MaintainConnection(c.modem, c.link, t, e)
                     IN  [c EXCEPT !.modem = r.modem, !.link = r.link,
                                   !.conn = (r.link = "gprs"),
                                   !.o.modemUsed = TRUE, !.o.maintained = TRUE,
                                   !.o.attempt = r.attempt, !.o.needs = r.needs,
                                   !.o.reset = r.reset, !.o.outcome = r.outcome]
                ELSE [c EXCEPT !.o.modemUsed = TRUE, !.o.maintained = TRUE]
      IN  IF ~c1.conn /\ c1.main.connectionFailureCount < MAX_CONNECTION_FAILURES
          THEN [c1 EXCEPT !.main.connectionFailureCount = @ + 1,
                          !.main.lastConnectionFailureTime = t,
                          !.o.failed = TRUE]
          ELSE IF c1.conn /\ c1.main.connectionFailureCount > 0
          THEN [c1 EXCEPT !.main.connectionFailureCount = 0]
          ELSE c1

\* loop(): the offline safety evaluation
S_Safety(c, t) ==
    IF c.done THEN c
    ELSE
      LET isOnline == c.conn /\ ~IsConnectionThrottled(c.http, t)
          r == HandleOfflineSafetyMechanisms(c.main, c.http, t, isOnline)
          ev == IF isOnline THEN "online" ELSE "offline"
          c1 == [c EXCEPT !.main = r.main, !.http = r.http,
                          !.o.eval = ev, !.o.lastEval = ev, !.o.amnesty = r.amnesty,
                          !.o.everOnline = (c.o.everOnline \/ isOnline),
                          !.o.cleared = (r.amnesty /\ c.http.failedAttempts > 0)]
      IN  IF r.restart THEN Restart(c1, "offline") ELSE c1

\* a slip: a failed HTTP request is counted as a connection failure
S_Traffic_CountsHttpFailure(c, t, e) ==
    IF c.done THEN c
    ELSE IF c.conn /\ ~IsConnectionThrottled(c.http, t)
    THEN LET h == PerformRequests(c.http, c.link, t, e.answers)
             c1 == [c EXCEPT !.http = h,
                             !.o.httpUsed = RequestsSent(c.http, c.link, t, e.answers),
                             !.main.connectionFailureCount =
                                 IF h.failedAttempts > c.http.failedAttempts
                                 THEN @ + 1 ELSE @]
         IN  IF e.answers # << >> /\ e.sleep THEN DeepSleep(c1) ELSE c1
    ELSE c

\* loop(): the iteration's HTTP traffic; the configuration fetch ends with a
\* sleep check
S_Traffic(c, t, e) ==
    IF c.done THEN c
    ELSE IF c.conn /\ ~IsConnectionThrottled(c.http, t)
    THEN LET c1 == [c EXCEPT !.http = PerformRequests(c.http, c.link, t, e.answers),
                             !.o.httpUsed = RequestsSent(c.http, c.link, t, e.answers)]
         IN  IF e.answers # << >> /\ e.sleep THEN DeepSleep(c1) ELSE c1
    ELSE c

SetupEnv ==
    [ powerOnOk : BOOLEAN, simReady : BOOLEAN, radio : RadioEnv,
      activate : BOOLEAN, ota : {"idle", "start"}, sleep : BOOLEAN,
      traffic : [ answers : Answers, sleep : BOOLEAN ] ]

\* setup() with millis() = t at its modem calls
SetupRun(t, e) ==
    LET c0 == Ctx("setup", t, link)
    IN  IF ~ModemInit(e.powerOnOk, e.simReady)
        THEN Restart(c0, "init")
        ELSE
          LET r  == MaintainConnection(c0.modem, c0.link, t, e.radio)
              c1 == [c0 EXCEPT !.modem = r.modem, !.link = r.link,
                               !.o.modemUsed = TRUE,
                               !.o.attempt = r.attempt, !.o.needs = r.needs,
                               !.o.reset = r.reset, !.o.outcome = r.outcome,
                               !.main.hasBeenOnlineRecently = FALSE,
                               !.main.firstOfflineTime = 0,
                               !.main.lastBackoffResetTime = t]
              \* testModemConnectivity() activates the bearer directly
              c2 == IF e.activate THEN [c1 EXCEPT !.link = "gprs"] ELSE c1
          IN  IF e.sleep
              THEN DeepSleep(c2)
              ELSE
                LET c3 == [c2 EXCEPT !.conn = (c2.link = "gprs")]
                    c4 == S_Traffic(c3, t, e.traffic)
                IN  IF c4.done THEN c4
                    ELSE IF e.ota = "start"
                    THEN [c4 EXCEPT !.main.otaActive = TRUE]
                    ELSE c4

\* the variables after a handler that left context c at millis() = t
Commit(c, t) ==
    /\ now' = t
    /\ phase' = c.phase
    /\ restartCause' = c.cause
    /\ link' = c.link
    /\ modem' = c.modem
    /\ http' = c.http
    /\ main' = c.main
    /\ obs' = c.o
    /\ hw' = hw

Init ==
    /\ now = 0
    /\ phase = "boot"
    /\ restartCause = "none"
    /\ link = "off"
    /\ modem = ModemBoot
    /\ http = HttpBoot
    /\ main = MainBoot
    /\ obs = ObsNone
    /\ hw = HwBoot

\* the chip starts after ESP.restart() or wakes from deep sleep: RAM is
\* initialised afresh and millis() starts at 0
PowerUp ==
    /\ phase \in {"restarting", "sleeping"}
    /\ now' = 0
    /\ phase' = "boot"
    /\ link' = "off"
    /\ modem' = ModemBoot
    /\ http' = HttpBoot
    /\ main' = MainBoot
    /\ obs' = [ObsNone EXCEPT !.op = "powerup"]
    /\ hw' = HwBoot
    /\ restartCause' = "none"

Setup ==
    /\ phase = "boot"
    /\ \E e \in SetupEnv :
         \E c \in {SetupRun(SetupMillis, e)} : Commit(c, SetupMillis)

\* one iteration of loop(), k quantum marks after the previous one; the
\* bearer may have dropped in between
Loop ==
    /\ phase = "run"
    /\ \E k \in 0..MaxStepQuanta, drop \in BOOLEAN :
        /\ drop => link # "off"
        /\ \E t \in {Advance(now, k)} :
           \E c1 \in {S_Uptime(Ctx("loop", t, IF drop THEN "off" ELSE link), t)} :
           \E e2 \in OtaEnv(c1) :       \E c2 \in {S_Ota(c1, t, e2)} :
           \E e3 \in SleepEnv(c2, t) :  \E c3 \in {S_TimeUpdate(c2, t, e3)} :
           \E c4 \in {S_FailureReset(c3, t)} :
           \E e5 \in EmergencyEnv(c4, t) : \E c5 \in {S_Emergency(c4, t, e5)} :
           \E e6 \in MaintainEnv(c5, t) :  \E c6 \in {S_Maintain(c5, t, e6)} :
           \E c7 \in {S_Safety(c6, t)} :
           \E e8 \in TrafficEnv(c7, t) :   \E c8 \in {S_Traffic(c7, t, e8)} :
              Commit(c8, t)

Next ==
    \/ PowerUp
    \/ Setup
    \/ Loop

Spec == Init /\ [][Next]_vars

(***************************************************************************)
(* SpecRecovery: setup() and loop() observed every few minutes, with the   *)
(* modem initialising, no OTA window, no sleep time and no HTTP traffic    *)
(***************************************************************************)
RecoveryHorizon == MaxRecoveryQuanta * RecoveryQuantum

RecoveryAdvance(t, k) ==
    IF k = 0 THEN t ELSE ((t \div RecoveryQuantum) + k) * RecoveryQuantum

NoTraffic == [ answers |-> << >>, sleep |-> FALSE ]

RecoverySetup ==
    /\ phase = "boot"
    /\ \E radio \in RadioEnv :
         \E e \in {[ powerOnOk |-> TRUE, simReady |-> TRUE, radio |-> radio,
                     activate |-> FALSE, ota |-> "idle", sleep |-> FALSE,
                     traffic |-> NoTraffic ]} :
         \E c \in {SetupRun(SetupMillis, e)} : Commit(c, SetupMillis)

\* how the last entry into emergency recovery went: "noreset" | "ok" | "failed"
EntryOf(o, before) ==
    IF o.entered
    THEN IF o.ereset = "none" THEN "noreset" ELSE o.ereset
    ELSE before

\* one iteration of loop(), at the time of the previous one or one quantum
\* mark later; the bearer may have dropped in between
RecoveryLoop ==
    /\ phase = "run"
    /\ \E k \in 0..1, drop \in BOOLEAN :
        /\ drop => link # "off"
        /\ \E t \in {RecoveryAdvance(now, k)} :
           /\ t <= RecoveryHorizon
           /\ \E c1 \in {S_Uptime(Ctx("loop", t, IF drop THEN "off" ELSE link), t)} :
              \E c2 \in {S_Ota(c1, t, "idle")} :
              \E c3 \in {S_TimeUpdate(c2, t, FALSE)} :
              \E c4 \in {S_FailureReset(c3, t)} :
              \E e5 \in EmergencyEnv(c4, t) : \E c5 \in {S_Emergency(c4, t, e5)} :
              \E e6 \in MaintainEnv(c5, t) :  \E c6 \in {S_Maintain(c5, t, e6)} :
              \E c7 \in {S_Safety(c6, t)} :
              \E c8 \in {S_Traffic(c7, t, NoTraffic)} :
                 Commit([c8 EXCEPT !.o.lastEntry = EntryOf(c8.o, obs.lastEntry)], t)

NextRecovery ==
    \/ RecoverySetup
    \/ RecoveryLoop

SpecRecovery == Init /\ [][NextRecovery]_vars

(***************************************************************************)
(* SpecHttp: the HTTP client's backoff on its own                          *)
(***************************************************************************)
HttpFineHorizon == MaxHttpQuanta * HttpQuantum

\* millis() advances between two requests
HttpTick ==
    /\ now < HttpFineHorizon
    /\ now' = now + HttpQuantum
    /\ obs' = ObsOf("tick", now)
    /\ UNCHANGED <<phase, restartCause, link, modem, http, main, hw>>

\* nothing is requested until the pending HTTP backoff has elapsed
HttpWait ==
    /\ IsConnectionThrottled(http, now)
    /\ http.lastAttemptTime + http.backoffDelay <= MaxHttpWaitQuanta * HttpQuantum
    /\ now' = http.lastAttemptTime + http.backoffDelay
    /\ obs' = ObsOf("wait", now)
    /\ UNCHANGED <<phase, restartCause, link, modem, http, main, hw>>

\* the modem reports another state of the link
HttpLinkChange ==
    /\ now <= HttpFineHorizon
    /\ \E lk \in {"off", "net", "gprs"} \ {link} : link' = lk
    /\ obs' = ObsOf("link", now)
    /\ UNCHANGED <<now, phase, restartCause, modem, http, main, hw>>

\* what the server may answer at millis() = t
HttpAnswers(t) ==
    IF t <= HttpFineHorizon
    THEN {"ok", "badbody", "status", "transport"}
    ELSE {"ok", "status", "transport"}

\* a caller invokes one of the request operations; the answer matters only
\* when the request reaches the server
HttpRequest ==
    /\ now > 0
    /\ http.failedAttempts > 0 \/ now <= HttpFineHorizon
    /\ \E kind \in RequestKinds :
         \E answer \in IF IsConnectionThrottled(http, now) \/ link # "gprs"
                        THEN {"none"} ELSE HttpAnswers(now) :
             /\ http' = SendRequest(kind, http, link, now, answer)
             /\ obs' = [ObsOf("request", now) EXCEPT
                          !.kind = kind, !.answer = answer,
                          !.calls = RequestCalls(kind, http, link, now, answer),
                          !.returned = RequestReturns(kind, http, link, now, answer)]
    /\ UNCHANGED <<now, phase, restartCause, link, modem, main, hw>>

\* loop() reaches its traffic section (main.cpp 486-678) with
\* connectionSuccess = GPRS is up; the iteration does not end in deep sleep
HttpLoopTraffic ==
    /\ now > 0
    /\ http.failedAttempts > 0 \/ now <= HttpFineHorizon
    /\ LET c == [Ctx("traffic", now, link) EXCEPT !.conn = (link = "gprs")]
       IN  \E e \in TrafficEnv(c, now) :
             /\ ~e.sleep
             /\ \E r \in {S_Traffic(c, now, e)} :
                  /\ http' = r.http
                  /\ obs' = [ObsOf("traffic", now) EXCEPT !.httpUsed = r.o.httpUsed]
    /\ UNCHANGED <<now, phase, restartCause, link, modem, main, hw>>

NextHttp ==
    \/ HttpTick
    \/ HttpWait
    \/ HttpLinkChange
    \/ HttpRequest
    \/ HttpLoopTraffic

SpecHttp == InitTracker /\ [][NextHttp]_vars

(***************************************************************************)
(* SpecModem: the operations of ModemManager on the board, called one at   *)
(* a time.  phase = "boot": the object is constructed (_initialized is     *)
(* false); phase = "run": init() has run (_initialized is true).           *)
(***************************************************************************)
Initialized == phase = "run"

\* the chip has started after a power-on or reset, or has woken by its timer
InitModem ==
    /\ now = SetupMillis
    /\ phase = "boot"
    /\ restartCause = "none"
    /\ link = "off"
    /\ modem = ModemBoot
    /\ http = HttpBoot
    /\ main = MainBoot
    /\ obs = ObsNone
    /\ hw \in { [HwBoot EXCEPT !.cause = c] : c \in {"poweron", "timer"} }

\* what the modem may do during powerOn()
PowerOnEnv ==
    { e \in [ timerWake : BOOLEAN, a : 0..11, restartOk : BOOLEAN, initOk : BOOLEAN ] :
        /\ e.timerWake = (hw.cause = "timer")
        /\ ~e.timerWake => e.a <= 9
        /\ (e.timerWake \/ e.a \in 1..8) => (e.restartOk /\ e.initOk)
        /\ e.restartOk => e.initOk
        /\ (~e.restartOk /\ ~e.initOk) => e.a = 0 }

\* what the SIM and the network may do during connectNetwork(n): the attempt
\* in which registration succeeds; the bearer is not asked for
ConnectNetworkEnv(n) ==
    [ simReady : BOOLEAN, regAt : 0..n, actAt : {0} ]

\* what the SIM and the network may do during connectGprs(n): the inner
\* connectNetwork(1) has one attempt, the bearer comes up in attempt actAt
ConnectGprsEnv(n) ==
    { e \in [ simReady : BOOLEAN, regAt : 0..1, actAt : 0..n ] :
        /\ NetUp(link) => (e.simReady /\ e.regAt = 0)
        /\ ~e.simReady => e.regAt = 0
        /\ (~NetUp(link) /\ e.regAt = 0) => e.actAt = 0 }

\* the effect of one operation: its calls act on the board in order
Operate(op, arg, r) ==
    /\ hw' = HwAfter(hw, r.calls)
    /\ obs' = [ObsOf(op, now) EXCEPT !.calls = r.calls, !.returned = r.ok, !.arg = arg]

\* the same, for an operation that may ask for the SIM status; the history
\* keeps what the SIM would answer
OperateSim(op, arg, r, simReady) ==
    /\ hw' = HwAfter(hw, r.calls)
    /\ obs' = [ObsOf(op, now) EXCEPT !.calls = r.calls, !.returned = r.ok, !.arg = arg,
                                     !.answer = IF simReady THEN "simReady" ELSE "simNotReady"]

\* the network drops the bearer or the registration
ModemLinkDrop ==
    /\ link # "off"
    /\ link' = "off"
    /\ UNCHANGED <<now, phase, restartCause, modem, http, main, obs, hw>>

\* setupWatchdog() in the sketch
ModemSetupWatchdog ==
    /\ hw.wdt # SetupWatchdog
    /\ hw' = [hw EXCEPT !.wdt = SetupWatchdog]
    /\ obs' = [ObsOf("setupWatchdog", now) EXCEPT !.returned = TRUE]
    /\ UNCHANGED <<now, phase, restartCause, link, modem, http, main>>

\* ModemManager::init(): hardware set-up, powerOn(), then the SIM check
ModemInitOp ==
    /\ ~Initialized
    /\ \E e \in PowerOnEnv :
         \E p \in {PowerOn(e)} :
             Operate("init", 0,
                     [ ok |-> TRUE,
                       calls |-> InitHardware \o p.calls
                                 \o (IF p.ok THEN <<"simCheck">> ELSE << >>) ])
    /\ phase' = "run"
    /\ UNCHANGED <<now, restartCause, link, modem, http, main>>

\* powerOn(); the history keeps which liveness probe the modem answered
ModemPowerOn ==
    /\ \E e \in PowerOnEnv : Operate("powerOn", e.a, PowerOn(e))
    /\ UNCHANGED <<now, phase, restartCause, link, modem, http, main>>

ModemWakeUp ==
    /\ \E fromDeepSleep \in BOOLEAN, a \in 0..11 :
         Operate("wakeUp", a, WakeUp(fromDeepSleep, a))
    /\ UNCHANGED <<now, phase, restartCause, link, modem, http, main>>

\* powerOff(); the history keeps whether the modem answered testAT() (1) or not (0)
ModemPowerOff ==
    /\ \E responsive \in BOOLEAN :
         Operate("powerOff", IF responsive THEN 1 ELSE 0, PowerOff(responsive))
    /\ link' = "off"
    /\ UNCHANGED <<now, phase, restartCause, modem, http, main>>

ModemConnectNetwork ==
    /\ \E n \in 1..MaxRetries :
         \E e \in ConnectNetworkEnv(n) :
         \E r \in {ConnectNetwork(Initialized, link, n, e)} :
             /\ OperateSim("connectNetwork", n, r, e.simReady)
             /\ link' = r.link
    /\ UNCHANGED <<now, phase, restartCause, modem, http, main>>

ModemConnectGprs ==
    /\ \E n \in 1..MaxRetries :
         \E e \in ConnectGprsEnv(n) :
         \E r \in {ConnectGprs(Initialized, link, n, e)} :
             /\ OperateSim("connectGprs", n, r, e.simReady)
             /\ link' = r.link
    /\ UNCHANGED <<now, phase, restartCause, modem, http, main>>

ModemResetModem ==
    /\ \E a \in 0..10 :
         \E r \in {ResetModemCalls(a)} :
             /\ Operate("resetModem", 0, r)
             /\ modem' = ResetModem(modem, now, r.ok, now)
    /\ link' = "off"
    /\ UNCHANGED <<now, phase, restartCause, http, main>>

NextModem ==
    \/ ModemLinkDrop
    \/ ModemSetupWatchdog
    \/ ModemInitOp
    \/ ModemPowerOn
    \/ ModemWakeUp
    \/ ModemPowerOff
    \/ ModemConnectNetwork
    \/ ModemConnectGprs
    \/ ModemResetModem

SpecModem == InitModem /\ [][NextModem]_vars

(***************************************************************************)
(* SpecMaintain: maintainConnection() on the board, observed every         *)
(* MIN_RESET_INTERVAL, after init() has run on a modem that was on         *)
(***************************************************************************)
MaintainQuantum == MIN_RESET_INTERVAL

InitMaintain ==
    /\ now = SetupMillis
    /\ phase = "run"
    /\ restartCause = "none"
    /\ link = "off"
    /\ modem = ModemBoot
    /\ http = HttpBoot
    /\ main = MainBoot
    /\ obs = ObsNone
    /\ hw = HwInitialised

MaintainTick ==
    /\ now < MaxMaintainQuanta * MaintainQuantum
    /\ now' = IF now = SetupMillis THEN MaintainQuantum ELSE now + MaintainQuantum
    /\ UNCHANGED <<phase, restartCause, link, modem, http, main, obs, hw>>

\* the network drops the bearer or the registration
MaintainLinkDrop ==
    /\ link # "off"
    /\ \E lk \in {"off", "net"} :
         /\ lk # link
         /\ link' = lk
    /\ UNCHANGED <<now, phase, restartCause, modem, http, main, obs, hw>>

\* maintainConnection(true); the call is over within the same observation
MaintainActive ==
    /\ \E e \in ModemEnv(0, MaintainQuantum) :
         \E r \in {MaintainConnection(modem, link, now, e)} :
         \E calls \in {MaintainConnectionCalls(modem, link, now, e)} :
             /\ modem' = r.modem
             /\ link' = r.link
             /\ hw' = HwAfter(hw, calls)
             /\ obs' = [ObsOf("maintain", now) EXCEPT
                            !.attempt = r.attempt, !.needs = r.needs,
                            !.reset = r.reset, !.outcome = r.outcome,
                            !.calls = calls, !.returned = (r.outcome = "success"),
                            !.arg = 1]
    /\ UNCHANGED <<now, phase, restartCause, http, main>>

\* maintainConnection(false); whether the modem answers matters only when
\* the bearer is up
MaintainIdle ==
    /\ \E responsive \in BOOLEAN :
         \E calls \in {<<"gprsCheck">>
                       \o (IF GprsUp(link) THEN DisconnectGprs(link, responsive).calls
                                           ELSE << >>)} :
             /\ GprsUp(link) \/ responsive
             /\ link' = MaintainInactive(link, responsive)
             /\ hw' = HwAfter(hw, calls)
             /\ obs' = [ObsOf("maintain", now) EXCEPT !.calls = calls, !.arg = 0]
    /\ UNCHANGED <<now, phase, restartCause, modem, http, main>>

NextMaintain ==
    \/ MaintainTick
    \/ MaintainLinkDrop
    \/ MaintainActive
    \/ MaintainIdle

SpecMaintain == InitMaintain /\ [][NextMaintain]_vars

(***************************************************************************)
(* SpecSleep: isSleepTime() and enterDeepSleepUntil() applied to the       *)
(* clock, the sleep window and the age of the last time synchronisation    *)
(***************************************************************************)
\* what getNetworkTime() may have stored: every hour and the ends of the
\* minute and second ranges, with values outside the ranges
ClockHours == (0 - 1)..24
ClockMinutes == {0 - 1, 0, 59}
ClockSeconds == {0, 59, 60}

\* the sleep window hours the configuration may hold
SleepHours == {2, 6, 9, 22}

\* millis() - lastNetworkTimeUpdate at the call
SyncAges == {0, StaleAfter, StaleAfter + 1}

\* the bearer is up, and either the time has never been obtained (the clock
\* globals are as initialised) or it was obtained at the end of setup()
InitSleep ==
    /\ phase = "run"
    /\ restartCause = "none"
    /\ link = "gprs"
    /\ modem = ModemBoot
    /\ http = HttpBoot
    /\ obs = ObsNone
    /\ hw = [HwInitialised EXCEPT !.wdt = SetupWatchdog]
    /\ \E age \in SyncAges, a \in SleepHours, b \in SleepHours :
         /\ now = SetupMillis + age
         /\ \/ main = [MainBoot EXCEPT !.dynamicSleepStartHour = a,
                                        !.dynamicSleepEndHour = b]
            \/ \E h \in ClockHours, m \in ClockMinutes, sec \in ClockSeconds :
                  main = [MainBoot EXCEPT !.dynamicSleepStartHour = a,
                                          !.dynamicSleepEndHour = b,
                                          !.currentHour = h,
                                          !.currentMinute = m,
                                          !.currentSecond = sec,
                                          !.lastNetworkTimeUpdate = SetupMillis]

\* what a call of enterDeepSleepUntil(hour, minute) leaves
Asleep(op, isSleep, hour, minute, r) ==
    /\ phase' = IF r.slept THEN "sleeping" ELSE phase
    /\ link' = r.link
    /\ main' = r.main
    /\ hw' = [HwAfter(hw, r.calls) EXCEPT !.wake = IF r.slept THEN r.seconds ELSE hw.wake]
    /\ obs' = [ObsOf(op, now) EXCEPT !.returned = isSleep, !.entered = r.slept,
                                     !.calls = r.calls, !.arg = hour, !.arg2 = minute]
    /\ UNCHANGED <<now, restartCause, modem, http>>

\* the sleep check of loop(): isSleepTime(), and when it says so
\* enterDeepSleepUntil(dynamicSleepEndHour, 0)
SleepCheck ==
    /\ phase = "run"
    /\ IF IsSleepTime(main, now)
       THEN \E r1 \in BOOLEAN, r2 \in BOOLEAN :
              Asleep("sleepCheck", TRUE, main.dynamicSleepEndHour, 0,
                     EnterDeepSleepUntil(main, link, main.dynamicSleepEndHour, 0, r1, r2))
       ELSE /\ obs' = [ObsOf("sleepCheck", now) EXCEPT !.returned = FALSE]
            /\ UNCHANGED <<now, phase, restartCause, link, modem, http, main, hw>>

\* enterDeepSleepUntil(hour, minute) on its own, also with arguments outside
\* the ranges
SleepEnter ==
    /\ phase = "run"
    /\ \E hour \in {main.dynamicSleepEndHour, 0 - 1, 24}, minute \in {0, 60} :
       \E r1 \in BOOLEAN, r2 \in BOOLEAN :
         /\ minute = 60 => hour = main.dynamicSleepEndHour
         /\ ~SleepTimesValid(main, hour, minute) => (r1 /\ r2)
         /\ Asleep("enterDeepSleepUntil", FALSE, hour, minute,
                EnterDeepSleepUntil(main, link, hour, minute, r1, r2))

NextSleep ==
    \/ SleepCheck
    \/ SleepEnter

SpecSleep == InitSleep /\ [][NextSleep]_vars

(***************************************************************************)
(* SpecOta: checkAndInitOta() and loop() applied to the clock and the      *)
(* scheduled OTA window, during the first minutes after setup()            *)
(***************************************************************************)
\* loop(): the OTA window is looked at when this long has passed since the
\* last look
OtaCheckInterval == 60000

\* times of day getNetworkTime() may have stored
DayHours == {0, 1, 9, 10, 11, 23}
DayMinutes == {0, 14, 15, 59}

\* the OTA window the configuration may hold
OtaHours == {0, 10, 23}
OtaMinutes == {0, 59}
OtaDurations == {1, 15, 24 * 60, 24 * 60 + 1}

\* setup() has run: the modem is initialised, the bearer is up or not, the
\* watchdog is armed, the clock has been read from the network
InitOta ==
    /\ now = SetupMillis
    /\ phase = "run"
    /\ restartCause = "none"
    /\ link \in {"off", "gprs"}
    /\ modem = ModemBoot
    /\ http = HttpBoot
    /\ obs = ObsNone
    /\ hw = [HwInitialised EXCEPT !.wdt = SetupWatchdog]
    /\ \E h \in DayHours, m \in DayMinutes,
          oh \in OtaHours, om \in OtaMinutes, d \in OtaDurations :
         main = [MainBoot EXCEPT !.currentHour = h,
                                 !.currentMinute = m,
                                 !.lastNetworkTimeUpdate = SetupMillis,
                                 !.lastBackoffResetTime = SetupMillis,
                                 !.dynamicOtaHour = oh,
                                 !.dynamicOtaMinute = om,
                                 !.dynamicOtaDuration = d]

\* loop(): OTA handling (what otaManager.handle() meets: "idle" | "timeout" |
\* "upload") and the periodic look at the OTA window
S_OtaWindow(c, t, handle, initOk) ==
    LET c1 == S_Ota(c, t, handle)
    IN  IF c1.done THEN c1
        ELSE IF USub(t, c1.main.lastOtaCheck) >= OtaCheckInterval
        THEN LET r == CheckAndInitOta([c1.main EXCEPT !.lastOtaCheck = t], initOk)
             IN  [c1 EXCEPT !.main = r.main, !.o.answer = r.answer]
        ELSE c1

\* checkAndInitOta() as setup() calls it
OtaCheck ==
    /\ phase = "run"
    /\ obs.op = "none"
    /\ \E initOk \in BOOLEAN :
       \E r \in {CheckAndInitOta(main, initOk)} :
         /\ initOk \/ r.answer = "window"
         /\ main' = r.main
         /\ hw' = HwAfter(hw, r.calls)
         /\ obs' = [ObsOf("checkAndInitOta", now) EXCEPT
                        !.answer = r.answer, !.returned = r.returned,
                        !.calls = r.calls]
    /\ UNCHANGED <<now, phase, restartCause, link, modem, http>>

\* one iteration of loop(): the first one right after setup(), the others
\* one check interval after the one before; the bearer may have dropped in
\* between
OtaLoop ==
    /\ phase = "run"
    /\ \E drop \in BOOLEAN :
        /\ drop => link # "off"
        /\ \E t \in {IF obs.op # "loop" THEN now
                      ELSE ((now \div OtaCheckInterval) + 1) * OtaCheckInterval} :
           /\ t <= MaxOtaQuanta * OtaCheckInterval
           /\ \E c1 \in {S_Uptime(Ctx("loop", t, IF drop THEN "off" ELSE link), t)} :
              \E handle \in OtaEnv(c1) \ {"start"}, initOk \in BOOLEAN :
              \E c2 \in {S_OtaWindow(c1, t, handle, initOk)} :
              \E c3 \in {S_TimeUpdate(c2, t, FALSE)} :
              \E c4 \in {S_FailureReset(c3, t)} :
              \E e5 \in EmergencyEnv(c4, t) : \E c5 \in {S_Emergency(c4, t, e5)} :
              \E e6 \in MaintainEnv(c5, t) :  \E c6 \in {S_Maintain(c5, t, e6)} :
              \E c7 \in {S_Safety(c6, t)} :
              \E c8 \in {S_Traffic(c7, t, NoTraffic)} :
                 /\ initOk \/ c2.o.answer = "window"
                 /\ Commit(c8, t)

NextOta ==
    \/ OtaCheck
    \/ OtaLoop

SpecOta == InitOta /\ [][NextOta]_vars

(***************************************************************************)
(* SpecOutage: setup() and loop() with the bearer up all the time and a    *)
(* server that, after the first seconds, fails every request; loop() is    *)
(* observed when it sends a request and while the HTTP backoff is pending  *)
(***************************************************************************)
\* the clock stops once an hour of failures and two more backoffs are over
OutageHorizon ==
    SetupMillis + HttpFineHorizon + MAX_OFFLINE_TIME + 2 * MAX_BACKOFF_DELAY_MS

\* setup() on a modem that registers and activates the bearer at once
OutageSetup ==
    /\ phase = "boot"
    /\ \E e \in {[ powerOnOk |-> TRUE, simReady |-> TRUE, radio |-> RadioIdle,
                    activate |-> FALSE, ota |-> "idle", sleep |-> FALSE,
                    traffic |-> NoTraffic ]} :
         \E c \in {SetupRun(SetupMillis, e)} : Commit(c, SetupMillis)

\* millis() reaches the end of the pending HTTP backoff
OutageWait ==
    /\ phase = "run"
    /\ IsConnectionThrottled(http, now)
    /\ http.lastAttemptTime + http.backoffDelay <= OutageHorizon
    /\ now' = http.lastAttemptTime + http.backoffDelay
    /\ UNCHANGED <<phase, restartCause, link, modem, http, main, obs, hw>>

\* the requests of an iteration that may send one at millis() = t: in the
\* first seconds nothing is due, or one request is answered 2xx or fails;
\* from then on one request is due and fails
OutageAnswers(c, t) ==
    IF ~c.done /\ c.conn /\ ~IsConnectionThrottled(c.http, t)
    THEN IF t <= SetupMillis + HttpFineHorizon
         THEN {<< >>, <<"ok">>, <<"fail">>}
         ELSE {<<"fail">>}
    ELSE {<< >>}

\* since when every request has failed: the time of the first failed request
\* after the last one that succeeded (-1: the last request succeeded, or
\* none was sent)
FailingSince(before, sent, answers, t) ==
    IF ~sent \/ answers = << >> THEN before
    ELSE IF Head(answers) = "ok" THEN 0 - 1
    ELSE IF before < 0 THEN t
    ELSE before

\* one iteration of loop() at millis() = now; the bearer stays up
OutageLoop ==
    /\ phase = "run"
    /\ \E t \in {now} :
       \E c1 \in {S_Uptime(Ctx("loop", t, link), t)} :
       \E c2 \in {S_Ota(c1, t, "idle")} :
       \E c3 \in {S_TimeUpdate(c2, t, FALSE)} :
       \E c4 \in {S_FailureReset(c3, t)} :
       \E e5 \in EmergencyEnv(c4, t) : \E c5 \in {S_Emergency(c4, t, e5)} :
       \E e6 \in MaintainEnv(c5, t) :  \E c6 \in {S_Maintain(c5, t, e6)} :
       \E c7 \in {S_Safety(c6, t)} :
       \E answers \in OutageAnswers(c7, t) :
       \E c8 \in {S_Traffic(c7, t, [ answers |-> answers, sleep |-> FALSE ])} :
          Commit([c8 EXCEPT !.o.failingSince =
                      FailingSince(obs.failingSince, c8.o.httpUsed, answers, t)], t)

NextOutage ==
    \/ OutageSetup
    \/ OutageWait
    \/ OutageLoop

SpecOutage == Init /\ [][NextOutage]_vars

(***************************************************************************)
(* SpecRegion: the two stretches of the sketch that run the modem with the *)
(* watchdog de-initialised, as the calls they make on the board            *)
(***************************************************************************)
\* setup(), from its first setupWatchdog() to the setupWatchdog() that
\* follows the initial connection: init() and maintainConnection(true) run
\* after esp_task_wdt_deinit().  pe: what the modem does during powerOn();
\* re: what it does during maintainConnection(true).
\* The first part: setupWatchdog(), esp_task_wdt_deinit(), init()
SetupInitCalls(pe) ==
    LET p == PowerOn(pe)
    IN  <<"wdtSetup", "wdtDeinit">>
        \o InitHardware \o p.calls \o (IF p.ok THEN <<"simCheck">> ELSE << >>)

\* the rest of the region: maintainConnection(true), then setupWatchdog()
SetupConnectCalls(re) ==
    MaintainConnectionCalls(ModemBoot, "off", SetupMillis, re) \o <<"wdtSetup">>

\* ModemManager::testConnectivity(); lk: the link the modem reports
TestConnectivity(lk, e) ==
    IF GprsUp(lk)
    THEN [ calls |-> <<"gprsCheck", "clientConnect">>, link |-> lk ]
    ELSE LET g == ConnectGprs(TRUE, lk, DEFAULT_MAX_RETRIES, e)
         IN  [ calls |-> <<"gprsCheck">> \o g.calls
                         \o (IF g.ok THEN <<"clientConnect">> ELSE << >>),
               link |-> g.link ]

\* testModemConnectivity(): activated: activateNetwork(true) succeeds;
\* reported: the modem then reports the bearer up
TestModemConnectivity(lk, activated, reported, e) ==
    LET lk1 == IF activated /\ reported THEN "gprs" ELSE lk
        t == TestConnectivity(lk1, e)
    IN  IF activated
        THEN [ calls |-> <<"wdtDeinit", "signalQuality", "operator", "gprsConnect",
                           "localIp">> \o t.calls \o <<"wdtSetup">>,
               link |-> t.link ]
        ELSE [ calls |-> <<"wdtDeinit", "signalQuality", "operator", "gprsConnect",
                           "wdtSetup">>,
               link |-> lk ]

\* setup() up to the end of the initial connection
RegionSetup ==
    /\ phase = "boot"
    /\ \E pe \in PowerOnEnv, re \in ModemEnv(0, MaintainQuantum) :
       \E r \in {MaintainConnection(ModemBoot, "off", SetupMillis, re)} :
       \E h1 \in {HwAfter(hw, SetupInitCalls(pe))} :
         /\ modem' = r.modem
         /\ link' = r.link
         /\ hw' = HwAfter(h1, SetupConnectCalls(re))
         /\ obs' = [ObsOf("setup", now) EXCEPT
                        !.calls = SetupInitCalls(pe) \o SetupConnectCalls(re),
                        !.returned = TRUE, !.outcome = r.outcome]
    /\ phase' = "run"
    /\ UNCHANGED <<now, restartCause, http, main>>

\* testModemConnectivity(), which setup() calls next
RegionTestConnectivity ==
    /\ phase = "run"
    /\ obs.op = "setup"
    /\ \E activated \in BOOLEAN, reported \in BOOLEAN :
       \E e \in ConnectGprsEnv(DEFAULT_MAX_RETRIES) :
       \E r \in {TestModemConnectivity(link, activated, reported, e)} :
         /\ ~activated => reported
         /\ (~activated \/ reported) => e = [ simReady |-> TRUE, regAt |-> 0, actAt |-> 0 ]
         /\ link' = r.link
         /\ hw' = HwAfter(hw, r.calls)
         /\ obs' = [ObsOf("testModemConnectivity", now) EXCEPT
                        !.calls = r.calls, !.returned = activated]
    /\ UNCHANGED <<now, phase, restartCause, modem, http, main>>

NextRegion ==
    \/ RegionSetup
    \/ RegionTestConnectivity

SpecRegion == InitModem /\ [][NextRegion]_vars

(***************************************************************************)
(* Properties of the connection failure tracker (SpecTracker)              *)
(***************************************************************************)
\* this step called needsReset() at millis() = now on the tracker as it was
NeedsResetAsked ==
    \/ CallStep("emergency")
    \/ CallStep("maintain") /\ obs'.attempt

\* the modem has not answered for longer than UNRESPONSIVE_TIMEOUT
UnresponsiveTooLong(m, t) ==
    m.lastResponsiveTime > 0 /\ USub(t, m.lastResponsiveTime) > UNRESPONSIVE_TIMEOUT

\* C8: _shouldAttemptConnection() returns false iff now - lastAttemptAt <
\* backoffDelay, so it returns true at the boundary now - lastAttemptAt =
\* backoffDelay, and the very first call after boot returns true.
C8_ShouldAttemptIffBackoffElapsed ==
    [][ CallStep("maintain") =>
          /\ (~obs'.attempt) <=> (USub(now, modem.lastConnectionAttempt) < modem.backoffDelay)
          /\ modem.lastConnectionAttempt = 0 => obs'.attempt
      ]_vars

\* C8 witness: a second attempt admitted exactly when the first backoff
\* (MIN_BACKOFF_DELAY after the first attempt) has elapsed, and then failed
C8_Witness ==
    /\ obs.op = "maintain" /\ obs.attempt
    /\ modem.consecutiveFailures = 2
    /\ modem.lastConnectionAttempt = 2 * MIN_BACKOFF_DELAY

\* C9 as claimed: needsReset() is true iff (consecutiveFailures >=
\* MAX_CONSECUTIVE_FAILURES and now - lastResetAt >= MIN_RESET_INTERVAL) or the
\* modem has been unresponsive for longer than UNRESPONSIVE_TIMEOUT, whatever
\* the time since the last reset.
C9_AsClaimed ==
    [][ NeedsResetAsked =>
          (obs'.needs <=>
             \/ /\ modem.consecutiveFailures >= MAX_CONSECUTIVE_FAILURES
                /\ USub(now, modem.lastModemReset) >= MIN_RESET_INTERVAL
             \/ UnresponsiveTooLong(modem, now))
      ]_vars

\* C9 as amended: needsReset() is true iff now - lastResetAt >=
\* MIN_RESET_INTERVAL and (consecutiveFailures >= MAX_CONSECUTIVE_FAILURES or
\* the modem, having answered at least once, has not answered for longer than
\* UNRESPONSIVE_TIMEOUT): the minimum reset interval gates both causes.
C9_NeedsResetGatedByInterval ==
    [][ NeedsResetAsked =>
          (obs'.needs <=>
             /\ USub(now, modem.lastModemReset) >= MIN_RESET_INTERVAL
             /\ \/ modem.consecutiveFailures >= MAX_CONSECUTIVE_FAILURES
                \/ UnresponsiveTooLong(modem, now))
      ]_vars

\* C9 witness: needsReset() asked and answered false although the modem has
\* been unresponsive for longer than the timeout, a reset being too recent
C9_Witness ==
    /\ obs.op = "emergency" /\ ~obs.needs /\ obs.t = now
    /\ UnresponsiveTooLong(modem, now)
    /\ USub(now, modem.lastModemReset) < MIN_RESET_INTERVAL

\* C10: needsReset() is false whenever consecutiveFailures <
\* MAX_CONSECUTIVE_FAILURES and the unresponsive timeout has not elapsed, for
\* every elapsed time since the last reset.
C10_NoResetBelowThreshold ==
    [][ ( /\ NeedsResetAsked
          /\ modem.consecutiveFailures < MAX_CONSECUTIVE_FAILURES
          /\ ~UnresponsiveTooLong(modem, now) )
        => ~obs'.needs
      ]_vars

\* C10 witness: needsReset() answered false with failures recorded but below
\* the threshold, the modem heard from recently, and more than
\* MIN_RESET_INTERVAL elapsed since the last reset
C10_Witness ==
    /\ obs.op = "emergency" /\ ~obs.needs /\ obs.t = now
    /\ modem.consecutiveFailures > 0
    /\ modem.consecutiveFailures < MAX_CONSECUTIVE_FAILURES
    /\ modem.lastResponsiveTime > 0
    /\ ~UnresponsiveTooLong(modem, now)
    /\ USub(now, modem.lastModemReset) > MIN_RESET_INTERVAL

\* C6: in a sequence of recorded failures with no success and no modem reset
\* in between, backoffDelay never decreases from one failure to the next; it
\* never exceeds MAX_BACKOFF_DELAY; one recorded success sets both
\* consecutiveFailures and backoffDelay to zero.
C6_BackoffMonotoneAndCapped ==
    [][ CallStep("maintain") =>
          /\ ( /\ obs'.outcome = "failure"
               /\ obs'.reset # "ok"
               /\ modem.consecutiveFailures >= 1 )
             => /\ modem'.consecutiveFailures = modem.consecutiveFailures + 1
                /\ modem'.backoffDelay >= modem.backoffDelay
          /\ modem'.backoffDelay <= MAX_BACKOFF_DELAY
          /\ obs'.outcome = "success"
             => modem'.consecutiveFailures = 0 /\ modem'.backoffDelay = 0
      ]_vars

\* C6 witness: a failure recorded on top of MAX_CONSECUTIVE_FAILURES earlier
\* ones, the delay resting at the cap
C6_Witness ==
    /\ obs.op = "maintain" /\ obs.outcome = "failure" /\ obs.reset # "ok"
    /\ modem.consecutiveFailures = MAX_CONSECUTIVE_FAILURES + 1
    /\ modem.backoffDelay = MAX_BACKOFF_DELAY

\* the delays of C7, in milliseconds
BackoffTable(n) ==
    CASE n = 1 -> 30000
      [] n = 2 -> 60000
      [] n = 3 -> 120000
      [] n = 4 -> 240000
      [] OTHER -> 300000

\* C7: with n >= 1 consecutive failures recorded, backoffDelay is 30 s, 60 s,
\* 120 s, 240 s for n = 1..4 and 300 s from the 5th failure on.
C7_BackoffSequence ==
    modem.consecutiveFailures >= 1
        => modem.backoffDelay = BackoffTable(modem.consecutiveFailures)

\* C7 witness: seven consecutive failures, the delay saturated at 300 s
C7_Witness ==
    /\ modem.consecutiveFailures = 7
    /\ modem.backoffDelay = 300000

(***************************************************************************)
(* Properties of the device (Spec)                                         *)
(***************************************************************************)
\* this step is one iteration of loop() that called the offline safety
\* evaluation with isOnline = FALSE at millis() = now'
OfflineEval == obs'.op = "loop" /\ obs'.eval = "offline"

\* this step restarts the device for the given cause
RestartsFor(why) ==
    phase # "restarting" /\ phase' = "restarting" /\ restartCause' = why

\* C1: with the device observed online before, an offline observation at T
\* sets firstOfflineTime = T; a later offline observation restarts the device
\* exactly when MAX_OFFLINE_TIME has passed since T; once the restart is
\* under way nothing but the power-up follows.
C1_OfflineRestart ==
    [][ /\ OfflineEval =>
            /\ main.hasBeenOnlineRecently
                 => /\ main'.firstOfflineTime = now'
                    /\ ~main'.hasBeenOnlineRecently
                    /\ ~RestartsFor("offline")
            /\ (~main.hasBeenOnlineRecently /\ main.firstOfflineTime > 0)
                 => /\ RestartsFor("offline")
                        <=> USub(now', main.firstOfflineTime) >= MAX_OFFLINE_TIME
                    /\ main'.firstOfflineTime = main.firstOfflineTime
        /\ RestartsFor("offline") => OfflineEval
        /\ phase = "restarting" => obs'.op = "powerup"
      ]_vars

\* C1 witness: the restart for being offline, taken at the observation that
\* falls exactly MAX_OFFLINE_TIME after the offline start
C1_Witness ==
    /\ phase = "restarting" /\ restartCause = "offline"
    /\ obs.eval = "offline"
    /\ main.firstOfflineTime > 0
    /\ now = main.firstOfflineTime + MAX_OFFLINE_TIME

\* this step is an offline safety evaluation that reset the backoffs
AmnestyStep == OfflineEval /\ obs'.amnesty

\* the backoff reset is taken exactly in an offline episode that began after
\* an online observation, before the offline limit, once
\* BACKOFF_RESET_INTERVAL has passed since the episode began or since the
\* previous reset
AmnestyCondition ==
    /\ ~main.hasBeenOnlineRecently
    /\ main.firstOfflineTime > 0
    /\ USub(now', main.firstOfflineTime) < MAX_OFFLINE_TIME
    /\ USub(now', main.lastBackoffResetTime) >= BACKOFF_RESET_INTERVAL

C3_AsClaimed ==
    (phase = "run" /\ obs.lastEval # "none")
        => (main.firstOfflineTime = 0 <=> obs.lastEval = "online")

\* C4: an iteration of loop() that begins at millis() >=
\* UPTIME_RESTART_INTERVAL restarts the device without a modem or HTTP
\* operation and without touching their state, whatever the connectivity,
\* emergency recovery or OTA state; no uptime restart happens earlier.
C4_UptimeRestartFirst ==
    [][ obs'.op = "loop" =>
          /\ now' >= UPTIME_RESTART_INTERVAL
               => /\ RestartsFor("uptime")
                  /\ ~obs'.modemUsed /\ ~obs'.httpUsed
                  /\ obs'.eval = "none"
                  /\ modem' = modem /\ http' = http /\ main' = main
          /\ RestartsFor("uptime") => now' >= UPTIME_RESTART_INTERVAL
      ]_vars

\* C4 witness: the uptime restart taken exactly at the threshold while
\* emergency recovery is on and the OTA server is active
C4_Witness ==
    /\ phase = "restarting" /\ restartCause = "uptime"
    /\ now = UPTIME_RESTART_INTERVAL
    /\ main.emergencyRecoveryMode
    /\ main.otaActive

\* C5 as claimed: setup() and loop() restart the device only for exceeding
\* MAX_OFFLINE_TIME while offline or for reaching the uptime threshold.
C5_AsClaimed ==
    [][ (phase # "restarting" /\ phase' = "restarting")
          => restartCause' \in {"offline", "uptime"} ]_vars

\* C5 as amended: setup() and loop() restart the device only for exceeding
\* MAX_OFFLINE_TIME while offline, for reaching the uptime threshold, or when
\* the OTA server, active, has taken a firmware upload; no failed modem
\* power-on, SIM check, connection attempt, modem reset or HTTP request
\* leads to a restart.
C5_RestartCauses ==
    [][ (phase # "restarting" /\ phase' = "restarting") =>
          /\ obs'.op = "loop"
          /\ \/ /\ restartCause' = "offline"
                /\ obs'.eval = "offline"
                /\ main'.firstOfflineTime > 0
                /\ USub(now', main'.firstOfflineTime) >= MAX_OFFLINE_TIME
             \/ /\ restartCause' = "uptime"
                /\ now' >= UPTIME_RESTART_INTERVAL
             \/ /\ restartCause' = "ota"
                /\ main.otaActive
                /\ now' < UPTIME_RESTART_INTERVAL
      ]_vars

\* C5 witness: a restart out of the OTA upload handler, with the device
\* online and below both thresholds
C5_Witness ==
    /\ phase = "restarting" /\ restartCause = "ota"
    /\ main.hasBeenOnlineRecently
    /\ now < UPTIME_RESTART_INTERVAL

(***************************************************************************)
(* Properties of the modem reset (SpecTracker)                             *)
(***************************************************************************)
\* this step called resetModem() directly, at millis() = now
ResetCalled == CallStep("emergency") /\ obs'.reset # "none"

\* C11 as claimed: resetModem() on success zeroes consecutiveFailures and
\* updates lastModemReset; on failure it leaves consecutiveFailures,
\* backoffDelay, lastConnectionAttempt and lastModemReset unchanged.
C11_AsClaimed ==
    [][ ResetCalled =>
          /\ obs'.reset = "ok"
               => /\ modem'.consecutiveFailures = 0
                  /\ modem'.lastModemReset = now
          /\ obs'.reset = "failed"
               => /\ modem'.consecutiveFailures = modem.consecutiveFailures
                  /\ modem'.backoffDelay = modem.backoffDelay
                  /\ modem'.lastConnectionAttempt = modem.lastConnectionAttempt
                  /\ modem'.lastModemReset = modem.lastModemReset
      ]_vars

\* C11 as amended: resetModem() records the time of the reset on entry,
\* whether or not the reset succeeds; on success it zeroes consecutiveFailures
\* and notes the modem as responsive; on failure it changes nothing else;
\* backoffDelay and lastConnectionAttempt are never changed by it.
C11_ResetStampsEveryAttempt ==
    [][ ResetCalled =>
          /\ modem'.lastModemReset = now
          /\ modem'.backoffDelay = modem.backoffDelay
          /\ modem'.lastConnectionAttempt = modem.lastConnectionAttempt
          /\ obs'.reset = "ok"
               => /\ modem'.consecutiveFailures = 0
                  /\ modem'.lastResponsiveTime = now'
          /\ obs'.reset = "failed"
               => /\ modem'.consecutiveFailures = modem.consecutiveFailures
                  /\ modem'.lastResponsiveTime = modem.lastResponsiveTime
      ]_vars

\* C11 witness: a failed reset, asked for after MAX_CONSECUTIVE_FAILURES
\* failures, that has moved lastModemReset to the time of the attempt
C11_Witness ==
    /\ obs.op = "emergency" /\ obs.reset = "failed"
    /\ modem.consecutiveFailures >= MAX_CONSECUTIVE_FAILURES
    /\ modem.lastModemReset = obs.t
    /\ modem.lastModemReset > 0

\* C12 as claimed: in every reachable state of the connection failure
\* tracker, consecutiveFailures = 0 implies backoffDelay = 0.
C12_AsClaimed ==
    modem.consecutiveFailures = 0 => modem.backoffDelay = 0

(***************************************************************************)
(* Properties of the HTTP backoff (SpecHttp)                               *)
(***************************************************************************)
\* this step is a request that called exactly the handlers cs, in that order
RequestStep(cs) == CallStep("request") /\ obs'.calls = cs

\* the law the HTTP backoff is claimed to follow after k failures in a row
HttpBackoffTable(k) ==
    IF k = 1 THEN 5000
    ELSE IF k = 2 THEN 10000
    ELSE IF k = 3 THEN 20000
    ELSE IF k = 4 THEN 40000
    ELSE IF k = 5 THEN 80000
    ELSE IF k = 6 THEN 160000
    ELSE 300000

C14_ThrottledIffWithinBackoff ==
    /\ IsConnectionThrottled(http, now) <=>
           (http.failedAttempts > 0 /\ now - http.lastAttemptTime < http.backoffDelay)
    /\ http.failedAttempts = 0 => ~IsConnectionThrottled(http, now)
    /\ now - http.lastAttemptTime = http.backoffDelay => ~IsConnectionThrottled(http, now)

\* the backoff has just elapsed: a delay of 20 s, 20 s after the failure
C14_Witness ==
    /\ http.failedAttempts = 3
    /\ http.backoffDelay = 20000
    /\ now - http.lastAttemptTime = http.backoffDelay
    /\ ~IsConnectionThrottled(http, now)

\* this step is a request that got past the throttle and link checks
RequestIo == CallStep("request") /\ ~IsConnectionThrottled(http, now) /\ link = "gprs"

\* C15 as claimed: a request operation that attempts I/O calls exactly one
\* of the two backoff handlers: _resetBackoff when the status is 2xx and the
\* body is well-formed, _handleHttpFailure for every other outcome.
C15_AsClaimed ==
    [][ RequestIo =>
          /\ Len(obs'.calls) = 1
          /\ obs'.calls = <<"resetBackoff">> <=> obs'.answer = "ok" ]_vars

\* the HTTP backoff is active or the modem does not report GPRS
HttpBlocked == IsConnectionThrottled(http, now) \/ link # "gprs"

\* C16: a request operation called while the HTTP backoff is active or GPRS
\* is down calls no handler, returns failure and leaves failedAttempts,
\* backoffDelay and lastAttemptTime as they were; an iteration of loop() that
\* reaches its traffic section in that situation sends nothing.
C16_NoRequestWhileBlocked ==
    [][ /\ (CallStep("request") /\ HttpBlocked) =>
            /\ obs'.calls = << >>
            /\ ~obs'.returned
            /\ http' = http
        /\ (CallStep("traffic") /\ HttpBlocked) =>
            /\ ~obs'.httpUsed
            /\ http' = http ]_vars

\* a request refused 5 s into a 10 s backoff, with GPRS up
C16_Witness ==
    /\ obs.op = "request"
    /\ obs.calls = << >>
    /\ link = "gprs"
    /\ http.failedAttempts = 2
    /\ now - http.lastAttemptTime = 5000
    /\ IsConnectionThrottled(http, now)

(***************************************************************************)
(* Properties of emergency recovery (SpecRecovery, Spec)                   *)
(***************************************************************************)
\* this step is an iteration of loop() that entered emergency recovery
RecoveryEntered == obs'.op = "loop" /\ obs'.entered

\* C18 as claimed: an iteration of loop() that enters emergency recovery
\* found needsReset() true and called resetModem() once; when that reset
\* succeeded the iteration left recovery and went on.
C18_AsClaimed ==
    [][ RecoveryEntered =>
          /\ obs'.ereset # "none"
          /\ obs'.ereset = "ok" =>
                (~main'.emergencyRecoveryMode /\ obs'.eval # "none") ]_vars

\* this step is an iteration of loop() inside a recovery that began with a
\* failed modem reset and whose EMERGENCY_RECOVERY_DURATION has not elapsed
RecoveryPending ==
    /\ obs'.op = "loop"
    /\ main.emergencyRecoveryMode
    /\ obs.lastEntry = "failed"
    /\ USub(now', main.emergencyRecoveryStartTime) < EMERGENCY_RECOVERY_DURATION

\* C19 as claimed: after an entry into emergency recovery whose modem reset
\* failed, no iteration of loop() calls maintainConnection(true) before
\* EMERGENCY_RECOVERY_DURATION has elapsed since the entry.
C19_AsClaimed ==
    [][ RecoveryPending => obs'.outcome = "none" ]_vars

\* C20 as claimed: every iteration of loop() that neither restarts the
\* device nor puts it to sleep evaluates the offline safety state machine.
C20_AsClaimed ==
    [][ (obs'.op = "loop" /\ phase' = "run") => obs'.eval # "none" ]_vars

(***************************************************************************)
(* Independence of the two backoff trackers (Spec)                         *)
(***************************************************************************)
\* the connection failure tracker proper
TrackerFields(m) ==
    <<m.consecutiveFailures, m.backoffDelay, m.lastConnectionAttempt, m.lastModemReset>>

\* C17: HTTP requests and connection attempts keep separate books.  An
\* iteration of loop() that sent HTTP requests, whatever their outcome, ends
\* with the loop's connection failure count at zero and its last failure
\* time untouched, and when it made no connection attempt and no modem reset
\* the connection failure tracker is as before; an iteration (or setup())
\* that sent no HTTP request and granted no amnesty leaves the HTTP backoff
\* state as before, whatever its connection attempt did.
C17_TrackersIndependent ==
    [][ /\ (obs'.op = "loop" /\ obs'.httpUsed) =>
            /\ main'.connectionFailureCount = 0
            /\ main'.lastConnectionFailureTime = main.lastConnectionFailureTime
            /\ (obs'.outcome = "none" /\ obs'.ereset = "none") =>
                  TrackerFields(modem') = TrackerFields(modem)
        /\ (obs'.op \in {"loop", "setup"} /\ ~obs'.httpUsed /\ ~obs'.amnesty) =>
            http' = http ]_vars

\* a connection attempt has just failed while an HTTP backoff from an earlier
\* iteration is pending: each tracker holds its own failure
C17_Witness ==
    /\ obs.op = "loop"
    /\ obs.outcome = "failure"
    /\ ~obs.httpUsed
    /\ modem.consecutiveFailures = 1
    /\ main.connectionFailureCount = 1
    /\ http.failedAttempts = 1
    /\ http.lastAttemptTime < modem.lastConnectionAttempt

(***************************************************************************)
(* Properties of the modem operations on the board (SpecModem)             *)
(***************************************************************************)
\* the watchdog calls among the calls of an operation, in order
WatchdogCalls(calls) ==
    SelectSeq(calls, LAMBDA c : c \in {"wdtSuspend", "wdtResume"})

\* suspend and resume alternate, starting with a suspend and ending with a resume
RECURSIVE Bracketed(_)
Bracketed(w) ==
    IF w = << >>
    THEN TRUE
    ELSE /\ Len(w) >= 2
         /\ w[1] = "wdtSuspend"
         /\ w[2] = "wdtResume"
         /\ Bracketed(SubSeq(w, 3, Len(w)))

\* this step is a call of one of the operations that suspend the watchdog
SuspendingStep ==
    /\ obs'.seq # obs.seq
    /\ obs'.op \in {"powerOn", "wakeUp", "connectNetwork", "connectGprs", "resetModem"}

\* C21: whenever powerOn, wakeUp, connectNetwork, connectGprs or resetModem has
\* suspended the watchdog, it has resumed it before it returns, whether it
\* succeeds or fails: every _setWatchdog(true) of the call is followed by a
\* _setWatchdog(false), and the call leaves the watchdog armed
C21_WatchdogResumedOnReturn ==
    [][ SuspendingStep =>
          LET w == WatchdogCalls(obs'.calls)
          IN  /\ Bracketed(w)
              /\ w # << >> => (hw'.wdt = SetWatchdog(FALSE) /\ WdtArmed(hw')) ]_vars

\* powerOn() has failed after restart() and init() both failed, and the
\* watchdog is armed again
C21_Witness ==
    /\ obs.op = "powerOn"
    /\ ~obs.returned
    /\ obs.calls # << >>
    /\ obs.calls[Len(obs.calls) - 1] = "initCmd"
    /\ WatchdogCalls(obs.calls) = <<"wdtSuspend", "wdtResume">>
    /\ WdtArmed(hw)

\* the calls of kind c among the calls of an operation
CallsOf(calls, c) == SelectSeq(calls, LAMBDA x : x = c)

\* the operation drove the power-control line
DrovePowerLine(calls) ==
    CallsOf(calls, "pwrLow") # << >> \/ CallsOf(calls, "pwrHigh") # << >>

\* the operation issued TinyGSM's restart() or init()
IssuedRestart(calls) ==
    CallsOf(calls, "restartCmd") # << >> \/ CallsOf(calls, "initCmd") # << >>

\* C22: powerOn() called while the modem answers the first liveness probe
\* returns success after that one probe, without driving the power-control
\* line and without a restart command; the line is as it was before the call
C22_PowerOnIdempotent ==
    [][ (CallStep("powerOn") /\ obs'.arg = 1) =>
          /\ obs'.returned
          /\ Len(CallsOf(obs'.calls, "probe")) = 1
          /\ ~DrovePowerLine(obs'.calls)
          /\ ~IssuedRestart(obs'.calls)
          /\ hw'.pwr = hw.pwr ]_vars

\* powerOn() has returned success for a modem that was already on, after a
\* power-on or reset of the chip
C22_Witness ==
    /\ obs.op = "powerOn"
    /\ obs.arg = 1
    /\ obs.returned
    /\ hw.cause = "poweron"
    /\ obs.calls = <<"wdtSuspend", "probe", "wdtResume">>

\* is sequence p a run of consecutive calls of sequence calls
Contains(calls, p) ==
    \E i \in 1..(Len(calls) - Len(p) + 1) : SubSeq(calls, i, i + Len(p) - 1) = p

\* the escalation tiers of powerOn(): the timed power-on pulse followed by the
\* boot settle wait, liveness probes after it, the secondary pulse, and the
\* software restart command
ExhaustedTiers(calls) ==
    /\ Contains(calls, <<"pwrLow", "hold1000", "pwrHigh", "settle", "probe">>)
    /\ Contains(calls, <<"pwrLow", "hold100", "pwrHigh">>)
    /\ Contains(calls, <<"restartCmd">>)

\* C23 as stated: a powerOn() that returns failure has gone through every
\* escalation tier, on the path after a timer wake as well
C23_AsClaimed ==
    [][ (CallStep("powerOn") /\ ~obs'.returned) => ExhaustedTiers(obs'.calls) ]_vars

\* no liveness probe follows the first call of kind c
NoProbeAfter(calls, c) ==
    \A i, j \in 1..Len(calls) : (calls[i] = c /\ j > i) => calls[j] # "probe"

\* C24: powerOff() returns with PWR_PIN HIGH, the level that keeps the modem
\* off; for a modem that answered, no probe follows the first power-down
\* command and PWR_PIN is never driven LOW; for a modem that did not answer,
\* no probe follows the power-off pulse
C24_PowerOffLeavesLineOff ==
    [][ CallStep("powerOff") =>
          /\ obs'.returned
          /\ hw'.pwr = "HIGH"
          /\ obs'.arg = 1 =>
                /\ CallsOf(obs'.calls, "powerDownCmd") # << >>
                /\ NoProbeAfter(obs'.calls, "powerDownCmd")
                /\ CallsOf(obs'.calls, "pwrLow") = << >>
          /\ obs'.arg = 0 =>
                /\ Contains(obs'.calls, <<"pwrLow", "hold1200", "pwrHigh">>)
                /\ NoProbeAfter(obs'.calls, "pwrLow") ]_vars

\* powerOff() has pulsed off a modem that did not answer, before init() has run
C24_Witness ==
    /\ obs.op = "powerOff"
    /\ obs.arg = 0
    /\ Contains(obs.calls, PulseOff)
    /\ hw.pwr = "HIGH"
    /\ phase = "boot"

\* how many registration waits / bearer activations the operation made
Waits(calls) == Len(CallsOf(calls, "waitNetwork"))
Activations(calls) == Len(CallsOf(calls, "gprsConnect"))

\* C25 as stated: whenever the network (the bearer) is already connected,
\* connectNetwork() (connectGprs()) returns success with no registration wait
\* and no bearer activation
C25_AsClaimed ==
    [][ /\ (CallStep("connectNetwork") /\ NetUp(link)) =>
              (obs'.returned /\ Waits(obs'.calls) = 0)
        /\ (CallStep("connectGprs") /\ GprsUp(link)) =>
              (obs'.returned /\ Waits(obs'.calls) = 0 /\ Activations(obs'.calls) = 0)
      ]_vars

\* What holds of the two operations (the part of C25 the code satisfies):
\* connectGprs() with the bearer up returns success at once.
\* connectNetwork() returns failure at once, without a registration wait, when
\* init() has not run or the SIM is not ready, even if the network is
\* registered; past these checks it returns success at once when the network
\* is registered.  Not connected, connectNetwork(n) makes at most n
\* registration waits and connectGprs(n) at most one registration wait and n
\* bearer activations; they succeed exactly when an attempt brings the link
\* up, and fail after the last attempt otherwise.
ConnectNoOpAndBounded ==
    [][ /\ CallStep("connectNetwork") =>
              LET w == Waits(obs'.calls)
                  ready == Initialized /\ obs'.answer = "simReady"
              IN  /\ w <= obs'.arg
                  /\ Activations(obs'.calls) = 0
                  /\ ~ready => (~obs'.returned /\ w = 0 /\ link' = link
                                 /\ WatchdogCalls(obs'.calls) = << >>)
                  /\ (ready /\ NetUp(link)) =>
                         (obs'.returned /\ w = 0 /\ link' = link
                          /\ WatchdogCalls(obs'.calls) = << >>)
                  /\ (ready /\ ~NetUp(link)) =>
                         /\ w >= 1
                         /\ obs'.returned = NetUp(link')
                         /\ ~obs'.returned => (w = obs'.arg /\ link' = link)
        /\ CallStep("connectGprs") =>
              LET w == Waits(obs'.calls)
                  g == Activations(obs'.calls)
              IN  /\ w <= 1
                  /\ g <= obs'.arg
                  /\ GprsUp(link) =>
                         (obs'.returned /\ w = 0 /\ g = 0 /\ link' = link
                          /\ WatchdogCalls(obs'.calls) = << >>)
                  /\ ~GprsUp(link) =>
                         /\ obs'.returned = GprsUp(link')
                         /\ ~obs'.returned => (g = obs'.arg \/ (~NetUp(link') /\ g = 0))
      ]_vars

\* connectNetwork(3) has failed after three registration waits
ConnectBoundedReached ==
    /\ obs.op = "connectNetwork"
    /\ obs.arg = 3
    /\ ~obs.returned
    /\ Waits(obs.calls) = 3
    /\ link = "off"

(***************************************************************************)
(* Properties of maintainConnection() on the board (SpecMaintain)          *)
(***************************************************************************)
\* C26 as stated: maintainConnection(true) never resets or power-cycles the
\* modem: it does not call resetModem() and does not drive PWR_PIN
C26_AsClaimed ==
    [][ (CallStep("maintain") /\ obs'.arg = 1) =>
          (obs'.reset = "none" /\ ~DrovePowerLine(obs'.calls)) ]_vars

(***************************************************************************)
(* Properties of the sleep window and deep sleep (SpecSleep)               *)
(***************************************************************************)
\* hour h lies in the sleep window from hour a to hour b
InWindow(h, a, b) ==
    IF a < b THEN a <= h /\ h < b
    ELSE IF a > b THEN h >= a \/ h < b
    ELSE FALSE

\* the network time has been obtained, and not longer ago than StaleAfter
TimeSynced(g) == g.lastNetworkTimeUpdate > 0
TimeFresh(g, t) == USub(t, g.lastNetworkTimeUpdate) <= StaleAfter

\* the clock holds a time of day
ClockValid(g) ==
    /\ g.currentHour \in 0..23
    /\ g.currentMinute \in 0..59
    /\ g.currentSecond \in 0..59

\* this step asked isSleepTime()
SleepAsked == CallStep("sleepCheck")

\* C27 as stated: with a synchronised, fresh time of day isSleepTime() is true
\* exactly when the current hour lies in the sleep window
C27_AsClaimed ==
    [][ (SleepAsked /\ TimeSynced(main) /\ TimeFresh(main, now) /\ ClockValid(main)) =>
          obs'.returned = InWindow(main.currentHour, main.dynamicSleepStartHour,
                                   main.dynamicSleepEndHour) ]_vars

\* C28: isSleepTime() returns false whenever the network time has never been
\* obtained, or was last obtained more than 2 hours ago, whatever the sleep
\* window is
C28_NoSleepOnUnsyncedOrStaleTime ==
    [][ (SleepAsked /\ (~TimeSynced(main) \/ ~TimeFresh(main, now))) =>
          (~obs'.returned /\ ~obs'.entered /\ phase' = "run") ]_vars

\* isSleepTime() has refused a time of day inside the sleep window because it
\* was obtained more than 2 hours ago
C28_Witness ==
    /\ obs.op = "sleepCheck"
    /\ ~obs.returned
    /\ TimeSynced(main)
    /\ ~TimeFresh(main, now)
    /\ ClockValid(main)
    /\ main.currentHour = 23
    /\ InWindow(main.currentHour, main.dynamicSleepStartHour, main.dynamicSleepEndHour)

\* this step called enterDeepSleepUntil(obs'.arg, obs'.arg2), from loop() or directly
SleepEntered ==
    /\ obs'.seq # obs.seq
    /\ \/ obs'.op = "enterDeepSleepUntil"
       \/ obs'.op = "sleepCheck" /\ obs'.returned

\* seconds from the time of day on the clock to the next hour:minute:00
SecondsUntil(g, hour, minute) ==
    ((hour * 3600 + minute * 60)
      - (g.currentHour * 3600 + g.currentMinute * 60 + g.currentSecond)) % 86400

Clamp(x, lo, hi) == IF x < lo THEN lo ELSE IF x > hi THEN hi ELSE x

\* C29: for a valid time of day on the clock and a valid wake time, the wake
\* timer armed by enterDeepSleepUntil is the number of seconds to the next
\* occurrence of the wake time, held within 60 s and 23 h
C29_WakeTimerClamped ==
    [][ (SleepEntered /\ ClockValid(main) /\ obs'.arg \in 0..23 /\ obs'.arg2 \in 0..59) =>
          /\ obs'.entered
          /\ hw'.wake = Clamp(SecondsUntil(main, obs'.arg, obs'.arg2), 60, 23 * 3600)
          /\ hw'.wake >= 60 /\ hw'.wake <= 23 * 3600 ]_vars

\* a sleep entered 59 s after the wake time of day has the timer held at 23 h
C29_Witness ==
    /\ obs.op = "enterDeepSleepUntil"
    /\ obs.entered
    /\ phase = "sleeping"
    /\ ClockValid(main)
    /\ main.currentHour = obs.arg /\ main.currentMinute = 0 /\ main.currentSecond = 59
    /\ hw.wake = 23 * 3600

\* the calls by which powerOff() turns the modem off: a power-down command,
\* or the power-off pulse
PowerOffActs == {"powerDownCmd", "hold1200"}

\* the wake time handed to enterDeepSleepUntil, or the hour or minute on the
\* clock, is out of range: what lines 1037 and 1045 of main.cpp test
SleepTimesRejected ==
    \/ obs'.arg \notin 0..23 \/ obs'.arg2 \notin 0..59
    \/ main.currentHour \notin 0..23 \/ main.currentMinute \notin 0..59

InOtaWindow(g) ==
    ((g.currentHour * 60 + g.currentMinute)
        - (g.dynamicOtaHour * 60 + g.dynamicOtaMinute)) % (24 * 60)
      < g.dynamicOtaDuration

\* the last handler asked isOtaWindowActive() about the clock and the window
OtaWindowAsked ==
    obs.op \in {"loop", "checkAndInitOta"} /\ obs.answer \in {"window", "noWindow"}

\* the last iteration of loop() ended before the connection maintenance: by
\* the uptime restart, by the restart after a firmware upload, by deep sleep
\* or by the skip during emergency recovery
EndedBeforeMaintenance ==
    \/ restartCause \in {"uptime", "ota"}
    \/ phase = "sleeping"
    \/ main.emergencyRecoveryMode

\* C31: for a window of 1 to 1440 minutes isOtaWindowActive() answers true
\* exactly when the time of day lies less than the duration past the window's
\* start, modulo 24 hours, also for a window that crosses midnight; and an
\* iteration of loop() with OTA mode active goes on to the connection
\* maintenance and the offline safety evaluation like any other
C31_OtaWindowMembership ==
    /\ (OtaWindowAsked /\ main.dynamicOtaDuration \in 1..(24 * 60))
          => (obs.answer = "window" <=> InOtaWindow(main))
    /\ (obs.op = "loop" /\ main.otaActive /\ ~EndedBeforeMaintenance)
          => (obs.maintained /\ obs.eval # "none")

\* an iteration of loop() finds the time in the after-midnight part of a
\* window that started before midnight, starts OTA mode, and maintains the
\* connection and evaluates the offline safety all the same
C31_Witness ==
    /\ obs.op = "loop"
    /\ obs.answer = "window"
    /\ main.otaActive
    /\ main.dynamicOtaHour * 60 + main.dynamicOtaMinute + main.dynamicOtaDuration
           > 24 * 60
    /\ main.dynamicOtaDuration < 24 * 60
    /\ main.currentHour * 60 + main.currentMinute
           < main.dynamicOtaHour * 60 + main.dynamicOtaMinute
    /\ obs.maintained
    /\ obs.eval # "none"

(***************************************************************************)
(* Properties of the device that never comes online (Spec)                 *)
(***************************************************************************)
\* no safety evaluation since boot has observed the device online
NeverOnline == ~obs.everOnline

\* C32 as claimed: a device that no safety evaluation since boot has seen
\* online is restarted by the offline evaluation once it has been offline
\* for MAX_OFFLINE_TIME (here: at an evaluation two such periods after boot,
\* whenever the first observation was), and gets the backoff reset at an
\* earlier offline evaluation that comes BACKOFF_RESET_INTERVAL or more
\* after the last one (after setup(), for the first).
C32_AsClaimed ==
    [][ (OfflineEval /\ NeverOnline) =>
           /\ now' >= 2 * MAX_OFFLINE_TIME => RestartsFor("offline")
           /\ (/\ now' < MAX_OFFLINE_TIME + SetupMillis
               /\ USub(now', main.lastBackoffResetTime) >= BACKOFF_RESET_INTERVAL)
                 => obs'.amnesty
      ]_vars

(***************************************************************************)
(* Properties of the modem reset rate (SpecTracker)                        *)
(***************************************************************************)
\* this step calls resetModem(), from maintainConnection(true) or from the
\* emergency path of loop()
ResetStarted ==
    /\ CallStep("maintain") \/ CallStep("emergency")
    /\ obs'.reset # "none"

\* C33: a call of resetModem(), from maintainConnection(true) or from the
\* emergency path of loop(), starts at least MIN_RESET_INTERVAL after the
\* start of the call of resetModem() before it, whether that one succeeded
\* or failed.
C33_ResetsSpacedApart ==
    [][ (ResetStarted /\ obs.lastReset >= 0)
            => obs'.t - obs.lastReset >= MIN_RESET_INTERVAL ]_vars

\* C33 witness: maintainConnection(true) resets the modem exactly
\* MIN_RESET_INTERVAL after the reset before it
C33_Witness ==
    /\ obs.op = "maintain"
    /\ obs.reset # "none"
    /\ obs.lastReset = obs.t
    /\ obs.arg = MIN_RESET_INTERVAL

(***************************************************************************)
(* Properties of the loop's failure counter (SpecRecovery)                 *)
(***************************************************************************)
\* C34 as claimed: at the end of every iteration of loop(),
\* emergencyRecoveryMode is set only if connectionFailureCount has reached
\* MAX_CONNECTION_FAILURES.
C34_AsClaimed ==
    (obs.op = "loop" /\ main.emergencyRecoveryMode)
        => main.connectionFailureCount >= MAX_CONNECTION_FAILURES

\* C35 as claimed: an iteration of loop() counts a connection failure only
\* if its maintainConnection(true) made a connection attempt that failed; an
\* iteration whose attempt the connection backoff suppressed counts none.
C35_AsClaimed ==
    (obs.op = "loop" /\ obs.failed) => obs.outcome = "failure"

(***************************************************************************)
(* Properties of the device whose requests all fail (SpecOutage)           *)
(***************************************************************************)
\* this step is an iteration of loop() that evaluated the offline safety
SafetyEval == obs'.op = "loop" /\ obs'.eval # "none"

\* C36 as claimed: with the bearer up and every request failing since the
\* first failed one, a safety evaluation that comes MAX_OFFLINE_TIME or more
\* after that first failed request restarts the device.
C36_AsClaimed ==
    [][ (/\ SafetyEval
         /\ obs.failingSince >= 0
         /\ now' - obs.failingSince >= MAX_OFFLINE_TIME)
            => RestartsFor("offline") ]_vars

(***************************************************************************)
(* Properties of the watchdog configuration (SpecModem)                    *)
(***************************************************************************)
\* WDT_TIMEOUT is in milliseconds; the watchdog takes seconds
WdtTimeoutSeconds == WDT_TIMEOUT \div 1000

\* C37 as claimed: whenever the watchdog is armed, its timeout is the
\* configured 120 seconds, whether setupWatchdog() or a modem operation's
\* _setWatchdog(false) armed it.
C37_AsClaimed ==
    WdtArmed(hw) => hw.wdt.timeout = WdtTimeoutSeconds

(***************************************************************************)
(* Properties of the regions without watchdog (SpecRegion)                 *)
(***************************************************************************)
\* after the i-th call of the sequence the region has begun (the watchdog
\* has been de-initialised by the sketch) and the watchdog is armed: the
\* last of the calls 1..i that sets the watchdog arms it
ArmedAfter(calls, i) ==
    /\ \E j \in 1..i : calls[j] = "wdtDeinit"
    /\ \E j \in 1..i :
         /\ WdtArmed(HwAfter(HwBoot, <<calls[j]>>))
         /\ \A k \in (j + 1)..i : HwAfter(HwBoot, <<calls[k]>>).wdt = HwBoot.wdt
                                       /\ calls[k] # "wdtDeinit"

\* the watchdog is armed somewhere between the region's
\* esp_task_wdt_deinit() and the setupWatchdog() that ends it
ArmedInside(calls) ==
    \E i \in 1..(Len(calls) - 1) : ArmedAfter(calls, i)

\* C38 as claimed: from the esp_task_wdt_deinit() of setup() or of
\* testModemConnectivity() to that function's own setupWatchdog() the
\* watchdog is never armed: no modem operation called in between re-arms it.
C38_AsClaimed ==
    obs.op \in {"setup", "testModemConnectivity"} => ~ArmedInside(obs.calls)

(***************************************************************************)
(* What one call of maintainConnection() does to the tracker (SpecMaintain)*)
(***************************************************************************)
\* the four fields of the tracker that only a connection attempt may change
AttemptFields(m) ==
    <<m.consecutiveFailures, m.backoffDelay, m.lastConnectionAttempt, m.lastModemReset>>

\* the calls on the modem that try to register or to bring the bearer up,
\* and the pulse of a reset
AttemptCalls == {"waitNetwork", "gprsConnect", "hold1500"}

\* this step is a call of maintainConnection(true) that backoff let through
MaintainAttempted == CallStep("maintain") /\ obs'.arg = 1 /\ obs'.attempt

\* this step is a call of maintainConnection(true) held back by backoff, or a
\* call of maintainConnection(false)
MaintainQuiet == CallStep("maintain") /\ (obs'.arg = 0 \/ ~obs'.attempt)

\* the failure count the one record of this step starts from: a reset that
\* succeeds has cleared it
CountBeforeRecord == IF obs'.reset = "ok" THEN 0 ELSE modem.consecutiveFailures

\* the tracker after this step shows one _recordConnectionFailure()
OneFailureRecorded ==
    /\ obs'.outcome = "failure"
    /\ modem'.consecutiveFailures = CountBeforeRecord + 1
    /\ modem'.backoffDelay = BackoffAfter(CountBeforeRecord + 1)

\* the tracker after this step shows one _recordConnectionSuccess()
OneSuccessRecorded ==
    /\ obs'.outcome = "success"
    /\ modem'.consecutiveFailures = 0
    /\ modem'.backoffDelay = 0
    /\ modem'.lastResponsiveTime = now

\* C39: a call of maintainConnection(true) that backoff lets through records
\* exactly one outcome in the tracker, one failure or one success; a call
\* held back by backoff and every call of maintainConnection(false) make no
\* connection attempt and leave consecutiveFailures, backoffDelay, the time
\* of the last attempt and the time of the last reset as they were.
C39_OneOutcomePerAttempt ==
    [][ /\ MaintainAttempted =>
             /\ OneFailureRecorded \/ OneSuccessRecorded
             /\ ~(OneFailureRecorded /\ OneSuccessRecorded)
             /\ modem'.lastConnectionAttempt = now
        /\ MaintainQuiet =>
             /\ \A i \in 1..Len(obs'.calls) : obs'.calls[i] \notin AttemptCalls
             /\ obs'.outcome \notin {"failure", "success"}
             /\ AttemptFields(modem') = AttemptFields(modem) ]_vars

\* a call that backoff let through has reset the modem, the reset succeeded,
\* and the attempt then failed: one failure is on record
C39_Witness ==
    /\ obs.op = "maintain"
    /\ obs.arg = 1
    /\ obs.attempt
    /\ obs.reset = "ok"
    /\ obs.outcome = "failure"
    /\ modem.consecutiveFailures = 1

(***************************************************************************)
(* The backoff after a failed attempt that blocked (SpecTracker)           *)
(***************************************************************************)
\* this step is a connection attempt, the first one after a failure that
\* is still the last outcome on record
AttemptAfterFailure ==
    /\ CallStep("maintain")
    /\ obs'.attempt
    /\ obs.failedAt >= 0

\* C40 as claimed: after a failed connection attempt the next attempt starts
\* no earlier than backoffDelay after the moment the failure was recorded;
\* the time the failed attempt spent blocking does not count.
C40_AsClaimed ==
    [][ AttemptAfterFailure => now >= obs.failedAt + modem.backoffDelay ]_vars

====
